---- MODULE Spec2Model ----
(***************************************************************************)
(* Model of the batch summarization pipeline of src/app.py:                *)
(* EmailSummarizerAgent.run_complete_summary, summarize_emails_in_batches, *)
(* _summarize_batch, extract_individual_summaries and                      *)
(* store_email_data_for_dashboard; and of the web service around it: the   *)
(* sessions of login, logout and change_password, init_db, and the runs    *)
(* started by trigger_manual_run and scheduled_summary next to             *)
(* fix_database and get_recent_summaries.                                  *)
(*                                                                         *)
(* Text.  A Python str is modelled as a sequence of tokens.  A token is a  *)
(* triple <<kind, n, len>> standing for a fixed piece of text, of which    *)
(* the first len characters are present (len is the full length except     *)
(* after a [:400] cut):                                                    *)
(*   <<"bb",0,2>>  "**"            <<"sp",0,1>>  " "    <<"nl",0,1>> "\n"  *)
(*   <<"E",n,_>>   "Email n:"      <<"e",n,_>>   "email n:"                *)
(*   <<"E2",n,_>>  "Email  n:" (two spaces)                                *)
(*   <<"w",n,_>>   the word "s" followed by the decimal digits of n        *)
(*   <<"x",0,k>>   the letter "x" repeated k times                         *)
(*   <<"ph",1,21>> "Summary not available"                                 *)
(*   <<"ph",2,31>> "Summary unavailable (API error)"                       *)
(*   <<"ts",n,35>> "This is a test summary for email n."                   *)
(*   <<"fb",n,113>> the summary of the n-th built-in placeholder email     *)
(*   <<"fs",n,_>>  the summary of the n-th sample email of force_test_run  *)
(* The text of a sequence is the concatenation of the texts of its tokens. *)
(***************************************************************************)
EXTENDS Bags, Integers, Sequences, FiniteSets, TLC

\* ---------------------------------------------------------------- bounds

\* Largest number of messages a mailbox search returns in the pipeline runs.
MaxEmails == 21

\* Message ids 1..MaxFailId may fail in the fetch loop.
MaxFailId == 1

\* The inserts of rows 1..MaxFailRow may fail in the store.
MaxFailRow == 1

\* A response text of a pipeline run may lack the marker of one of the first
\* MaxOmit positions of its batch.
MaxOmit == 2

\* Parser runs: the largest batch of a run on an arbitrary response text, and
\* the largest number of pieces such a text is put together from.
MaxCount == 2
MaxPieces == 3

\* Parser runs on a built response text (one marker per position, each
\* followed by an injected text): the largest batch, and the largest number
\* of pieces of the one injected text that is not a plain word.
MaxBuilt == 3
MaxInj == 2

\* Length of the long word <<"x",0,XLen>> used to reach the 400 character cut.
XLen == 399

\* Runs of fetch_emails_last_24h alone: the largest search result; any of
\* its messages may fail in the fetch loop.
MaxFetch == 5

\* The runs of the web service: the largest number of runs started by the
\* manual trigger, and the largest number of messages a run fetches (below
\* batch_size: one batch).
MaxThreads == 3
MaxRunEmails == 1

\* The web service next to the processes that load the module: the largest
\* number of runs started, and the number of records the run table holds
\* at most when force_test_run is called.
MaxBusy == 1
MaxRecords == 1

\* The largest number of init_db calls in flight at once (of loading
\* processes and fix_database requests), and the largest number of
\* change_password requests in flight at once.
MaxInits == 2
MaxChanging == 2

\* At most this many get_recent_summaries requests stand between their two
\* queries at a time.
MaxReading == 1

\* At most this many init_db calls and get_recent_summaries requests
\* together stand between their statements at a time.
MaxOpen == 2

\* ------------------------------------------------------ program constants

\* summarize_emails_in_batches: batch_size = 10
batch_size == 10

\* extract_individual_summaries: summary[:400]
SummaryLimit == 400

\* ---------------------------------------------------------------- tokens

Digits(n) == IF n < 10 THEN 1 ELSE IF n < 100 THEN 2 ELSE 3

BB == <<"bb", 0, 2>>
SP == <<"sp", 0, 1>>
NL == <<"nl", 0, 1>>
W(n) == <<"w", n, 1 + Digits(n)>>
WX == <<"x", 0, XLen>>
EmailMark(n) == <<"E", n, 7 + Digits(n)>>
EmailLower(n) == <<"e", n, 7 + Digits(n)>>
EmailWide(n) == <<"E2", n, 8 + Digits(n)>>

TokLen(t) == t[3]

\* Number of characters of a text.
RECURSIVE CharLen(_)
CharLen(s) == IF s = <<>> THEN 0 ELSE TokLen(Head(s)) + CharLen(Tail(s))

\* str.isspace of the token's text: what \s matches and str.strip removes.
IsWs(t) == t[1] \in {"sp", "nl"}

IsBB(t) == t = BB

\* Mutant of IsEmailRe: the pattern is matched without re.IGNORECASE.
IsEmailReCased(t, n) == t \in {EmailMark(n), EmailWide(n)}

\* The regular expression  Email\s+<n>:  under re.IGNORECASE matches exactly
\* the text of this token.
IsEmailRe(t, n) == t \in {EmailMark(n), EmailLower(n), EmailWide(n)}

\* f"email {n}:" in line.lower(): the text of this token contains it.
IsEmailLine(t, n) == t \in {EmailMark(n), EmailLower(n)}

\* _summarize_batch, line 1194: the batch-failure fallback string.
API_ERROR == << <<"ph", 2, 31>> >>

\* extract_individual_summaries, line 1236: the parse-failure fallback string.
NOT_AVAILABLE == << <<"ph", 1, 21>> >>

\* ------------------------------------------------------ str operations

\* str.strip(): leading and trailing whitespace removed.
Strip(s) ==
    LET keep == {i \in 1..Len(s) : ~IsWs(s[i])}
    IN  IF keep = {} THEN <<>>
        ELSE LET lo == CHOOSE i \in keep : \A j \in keep : i <= j
                 hi == CHOOSE i \in keep : \A j \in keep : j <= i
             IN  SubSeq(s, lo, hi)

\* re.sub(r'\*\*', '', s) and s.replace("**", "").
RemoveBold(s) == SelectSeq(s, LAMBDA t : ~IsBB(t))

\* re.sub(r'\s+', ' ', ...) inside one token: the two spaces of "Email  n:"
\* become one, every other token holds no run of whitespace.
CollapseTok(t) == IF t[1] = "E2" THEN EmailMark(t[2]) ELSE t

\* re.sub(r'\s+', ' ', s): every maximal run of whitespace becomes one space.
RECURSIVE CollapseFrom(_, _)
CollapseFrom(s, i) ==
    IF i > Len(s) THEN <<>>
    ELSE IF ~IsWs(s[i]) THEN <<CollapseTok(s[i])>> \o CollapseFrom(s, i + 1)
    ELSE IF i > 1 /\ IsWs(s[i - 1]) THEN CollapseFrom(s, i + 1)
    ELSE <<SP>> \o CollapseFrom(s, i + 1)

CollapseWs(s) == CollapseFrom(s, 1)

\* Mutant of TakeChars: nothing is cut.
TakeAll(s, limit) == s

\* s[:limit]: the first limit characters; the cut may fall inside a token.
RECURSIVE TakeChars(_, _)
TakeChars(s, limit) ==
    IF s = <<>> \/ limit <= 0 THEN <<>>
    ELSE IF TokLen(Head(s)) <= limit
         THEN <<Head(s)>> \o TakeChars(Tail(s), limit - TokLen(Head(s)))
         ELSE << <<Head(s)[1], Head(s)[2], limit>> >>

\* lines 1213-1217: strip, drop the emphasis markers, collapse whitespace, cut.
CleanSummary(captured) ==
    TakeChars(CollapseWs(RemoveBold(Strip(captured))), SummaryLimit)

\* ------------------------------------------------------ regular expressions

\* Where  $  matches without re.MULTILINE: at the end of the text, and
\* just before a newline that ends the text.
AtDollar(text, j) ==
    \/ j = Len(text) + 1
    \/ j = Len(text) /\ text[j] = NL

\* \*\*Email\s+<n>:\*\*  matches at token i.
BoldMarkerAt(text, i, n) ==
    /\ i >= 1
    /\ i + 2 <= Len(text)
    /\ IsBB(text[i])
    /\ IsEmailRe(text[i + 1], n)
    /\ IsBB(text[i + 2])

\* Email\s+<n>:  matches at token i.
PlainMarkerAt(text, i, n) ==
    /\ i >= 1
    /\ i <= Len(text)
    /\ IsEmailRe(text[i], n)

\* The marker of a pattern ("bold" is patterns[0], "plain" is patterns[1]).
MarkerAt(kind, text, i, n) ==
    IF kind = "bold" THEN BoldMarkerAt(text, i, n) ELSE PlainMarkerAt(text, i, n)

MarkerWidth(kind) == IF kind = "bold" THEN 3 ELSE 1

\* Mutant of PatternSearch: the capture is greedy, (.*) for (.*?), and runs
\* to the end of the text.
PatternSearchGreedy(kind, text, n) ==
    LET starts == {i \in 1..Len(text) : MarkerAt(kind, text, i, n)}
    IN  IF starts = {} THEN <<FALSE, <<>> >>
        ELSE
          LET i0 == CHOOSE i \in starts : \A j \in starts : i <= j
              a == i0 + MarkerWidth(kind)
              nonws == {j \in a..Len(text) : ~IsWs(text[j])}
              p == IF nonws = {} THEN Len(text) + 1
                   ELSE CHOOSE j \in nonws : \A k \in nonws : j <= k
          IN  <<TRUE, SubSeq(text, p, Len(text))>>

\* re.search(pattern, text, re.DOTALL | re.IGNORECASE) for
\*   <marker n> \s* (.*?) (?= <marker n+1> | $ )
\* The result is <<TRUE, group(1)>> or <<FALSE, <<>> >>.  The search takes the
\* leftmost marker; \s* is greedy; .*? stops at the first place where the
\* lookahead holds, which exists because $ holds at the end of the text.
PatternSearch(kind, text, n) ==
    LET starts == {i \in 1..Len(text) : MarkerAt(kind, text, i, n)}
    IN  IF starts = {} THEN <<FALSE, <<>> >>
        ELSE
          LET i0 == CHOOSE i \in starts : \A j \in starts : i <= j
              a == i0 + MarkerWidth(kind)
              nonws == {j \in a..Len(text) : ~IsWs(text[j])}
              p == IF nonws = {} THEN Len(text) + 1
                   ELSE CHOOSE j \in nonws : \A k \in nonws : j <= k
              stops == {j \in p..(Len(text) + 1) :
                          MarkerAt(kind, text, j, n + 1) \/ AtDollar(text, j)}
              q == CHOOSE j \in stops : \A k \in stops : j <= k
          IN  <<TRUE, SubSeq(text, p, q - 1)>>

\* ------------------------------------------------------ line scan

\* summary_text.split('\n')
RECURSIVE SplitLines(_)
SplitLines(text) ==
    LET nls == {i \in 1..Len(text) : text[i] = NL}
    IN  IF nls = {} THEN <<text>>
        ELSE LET i == CHOOSE k \in nls : \A j \in nls : k <= j
             IN  <<SubSeq(text, 1, i - 1)>> \o SplitLines(SubSeq(text, i + 1, Len(text)))

\* line 1227: the line mentions "email n:" in any letter case.
LineMentions(line, n) == \E i \in 1..Len(line) : IsEmailLine(line[i], n)

\* line 1228: the replace calls are case sensitive: only "Email n:" is removed.
LineRemainder(line, n) ==
    Strip(RemoveBold(SelectSeq(line, LAMBDA t : t # EmailMark(n))))

\* lines 1224-1232: the first mentioning line with a non-empty remainder.
\* The result is <<TRUE, summary>> or <<FALSE, <<>> >>.
LineScan(text, n) ==
    LET lines == SplitLines(text)
        hits == {k \in 1..Len(lines) :
                    LineMentions(lines[k], n) /\ LineRemainder(lines[k], n) # <<>>}
    IN  IF hits = {} THEN <<FALSE, <<>> >>
        ELSE LET k0 == CHOOSE k \in hits : \A j \in hits : k <= j
             IN  <<TRUE, TakeChars(LineRemainder(lines[k0], n), SummaryLimit)>>

\* ------------------------------------------------------ Response Parser

\* lines 1204-1236 for one position email_num: the first pattern that
\* matches decides; otherwise the line scan; otherwise the fallback string.
SummaryFor(summary_text, email_num) ==
    LET m1 == PatternSearch("bold", summary_text, email_num)
        m2 == PatternSearch("plain", summary_text, email_num)
        ls == LineScan(summary_text, email_num)
    IN  IF m1[1] THEN CleanSummary(m1[2])
        ELSE IF m2[1] THEN CleanSummary(m2[2])
        ELSE IF ls[1] THEN ls[2]
        ELSE NOT_AVAILABLE

\* Mutant of extract_individual_summaries: without the final fallback, a
\* position for which nothing is found gets no entry.
ExtractDropMissing(summary_text, batch_emails, start_index) ==
    [email_num \in {n \in (start_index + 1)..(start_index + Len(batch_emails)) :
                      SummaryFor(summary_text, n) # NOT_AVAILABLE} |->
        SummaryFor(summary_text, email_num)]

\* Mutant of extract_individual_summaries: the entries are stored under the
\* batch-local index i + 1.
ExtractLocalKeys(summary_text, batch_emails, start_index) ==
    [i \in 1..Len(batch_emails) |-> SummaryFor(summary_text, start_index + i)]

\* EmailSummarizerAgent.extract_individual_summaries: the dict summaries,
\* one key start_index + i + 1 for every i in range(len(batch_emails)).
extract_individual_summaries(summary_text, batch_emails, start_index) ==
    [email_num \in (start_index + 1)..(start_index + Len(batch_emails)) |->
        SummaryFor(summary_text, email_num)]

\* ------------------------------------------------------ helpers

Min(a, b) == IF a <= b THEN a ELSE b

\* The empty dict {}.
EmptyDict == [k \in {} |-> <<>>]

\* Mutant of DictUpdate: the dict is replaced by the batch's entries.
DictReplace(a, b) == b

\* dict.update: the keys of b are written, the other keys of a stay.
DictUpdate(a, b) ==
    [k \in (DOMAIN a) \cup (DOMAIN b) |-> IF k \in DOMAIN b THEN b[k] ELSE a[k]]

\* Mutant of BatchSlice: the slice ends one message early.
BatchSliceShort(emails, start) ==
    SubSeq(emails, start + 1, Min(start + batch_size - 1, Len(emails)))

\* emails_data[batch_num:batch_num + batch_size]
BatchSlice(emails, start) ==
    SubSeq(emails, start + 1, Min(start + batch_size, Len(emails)))

\* Mutant of FallbackSummaries: the keys are batch-local, i + 1.
FallbackLocalKeys(batch_emails, start_index) ==
    [email_num \in 1..Len(batch_emails) |-> API_ERROR]

\* Mutant of FallbackSummaries: a failed batch gets the parse-failure string.
FallbackNotAvailable(batch_emails, start_index) ==
    [email_num \in (start_index + 1)..(start_index + Len(batch_emails))
       |-> NOT_AVAILABLE]

\* _summarize_batch, line 1194: every position of the batch gets the
\* batch-failure string.
FallbackSummaries(batch_emails, start_index) ==
    [email_num \in (start_index + 1)..(start_index + Len(batch_emails)) |-> API_ERROR]

\* ------------------------------------------------------ the environment

\* What the mailbox server does in one fetch: a failure before the search
\* result is read ("connect": IMAP4_SSL raises, "login", "select", "search":
\* the call raises, "not_ok": the search answers with a status other than
\* OK), a search result of m message ids 1..m of which the ids in bad fail
\* in the fetch loop, or a failure of mail.close() after the loop ("close").
FetchFailures == {"connect", "login", "select", "search", "not_ok", "close"}

MailboxOutcomes ==
    [kind : FetchFailures, m : {0}, bad : {{}}]
      \cup [kind : {"ok"}, m : 0..MaxEmails, bad : {{}}]
      \cup {[kind |-> "ok", m |-> m, bad |-> b] :
               m \in 1..MaxEmails, b \in SUBSET (1..MaxFailId)}

\* The mailbox server never answers.  imaplib.IMAP4_SSL is created without a
\* timeout (line 983) and no default socket timeout is set, so the call that
\* waits for the server does not return.
MailboxHangs == [kind |-> "hang", m |-> 0, bad |-> {}]

NoMailbox == [kind |-> "none", m |-> 0, bad |-> {}]

\* The session after fetch_emails_last_24h has returned: mail.close() and
\* mail.logout() are called on the non-OK search status (lines 993-994) and
\* after the loop (lines 1038-1039); the handler of lines 1043-1045 calls
\* neither.  When IMAP4_SSL itself raises there is no session.
SessionAfter(outcome) ==
    IF outcome.kind = "connect" THEN "none"
    ELSE IF outcome.kind \in {"ok", "not_ok"} THEN "closed"
    ELSE "open"

\* ------------------------------------------------------ configuration

\* EmailSummarizerAgent.__init__: the environment variables that are checked,
\* in the order of the checks.
RequiredVars == <<"DEEPSEEK_API_KEY", "SOURCE_EMAIL", "SOURCE_PASSWORD">>

\* os.getenv gives None for a variable that is unset; "" is a value.
EnvValues == {"unset", "empty", "set"}

EntryPoints == {"scheduled_summary", "run_background"}

Configs ==
    [entry : EntryPoints,
     env : [{RequiredVars[i] : i \in 1..Len(RequiredVars)} -> EnvValues]]

\* `not value`: None and "" are refused.
Falsy(value) == value \in {"unset", "empty"}

\* Mutant of MissingVar: the password is not checked.
MissingVarNoPassword(env) ==
    IF Falsy(env["DEEPSEEK_API_KEY"]) THEN "DEEPSEEK_API_KEY"
    ELSE IF Falsy(env["SOURCE_EMAIL"]) THEN "SOURCE_EMAIL"
    ELSE "none"

\* The variable named by the ValueError of lines 970-975, "none" when the
\* constructor returns.
MissingVar(env) ==
    IF Falsy(env["DEEPSEEK_API_KEY"]) THEN "DEEPSEEK_API_KEY"
    ELSE IF Falsy(env["SOURCE_EMAIL"]) THEN "SOURCE_EMAIL"
    ELSE IF Falsy(env["SOURCE_PASSWORD"]) THEN "SOURCE_PASSWORD"
    ELSE "none"

\* How a generation request ends.  "network" and "status" raise a
\* requests.RequestException, "envelope" raises while the JSON envelope is
\* read, "ok" returns a response text described by style and omit.
PendingOutcome == [kind |-> "pending", style |-> "none", omit |-> 0]

FailureOutcomes ==
    [kind : {"network", "status", "envelope"}, style : {"none"}, omit : {0}]

\* The response texts of a batch of count messages that starts at start:
\*   bold   "**Email n:** s<n>\n" for every position n of the batch
\*   plain  "Email n: s<n>\n" for every position n of the batch
\*   echo   "**Email n:** Summary unavailable (API error)\n" for every
\*          position n of the batch
\*   empty  ""
\* and, for bold and plain, the same text without the marker and the text of
\* the omit-th position of the batch (omit = 0: nothing is left out).
SuccessOutcomes(count) ==
    [kind : {"ok"}, style : {"bold", "plain"},
     omit : 0..(IF count < MaxOmit THEN count ELSE MaxOmit)]
      \cup [kind : {"ok"}, style : {"echo", "empty"}, omit : {0}]

ReplyEntry(style, n) ==
    IF style = "bold" THEN <<BB, EmailMark(n), BB, SP, W(n), NL>>
    ELSE IF style = "echo" THEN <<BB, EmailMark(n), BB, SP>> \o API_ERROR \o <<NL>>
    ELSE <<EmailMark(n), SP, W(n), NL>>

RECURSIVE ReplyFrom(_, _, _, _, _)
ReplyFrom(style, omit, start, count, i) ==
    IF i > count THEN <<>>
    ELSE (IF i = omit THEN <<>> ELSE ReplyEntry(style, start + i))
           \o ReplyFrom(style, omit, start, count, i + 1)

ReplyText(outcome, start, count) ==
    IF outcome.style = "empty" THEN <<>>
    ELSE ReplyFrom(outcome.style, outcome.omit, start, count, 1)

\* ------------------------------------------------------ Prompt Builder

\* Mutant of PromptNumber: the messages are numbered from 1 in every batch.
PromptNumberLocal(start_index, i) == i

\* _summarize_batch, lines 1128-1129: enumerate(batch_emails, 1) and
\* email_num = start_index + i.
PromptNumber(start_index, i) == start_index + i

\* line 1130: the heading "Email <email_num>:\n" of a message in the prompt.
PromptHeading(start_index, i) ==
    <<EmailMark(PromptNumber(start_index, i)), NL>>

\* lines 1140-1141: the marker "**Email <number>:**" of the format the prompt
\* asks for; the prompt spells out the first two and goes on with "...and so
\* on for each email".
RequestedMarker(number) == <<BB, EmailMark(number), BB>>

PromptMarkers(start_index) ==
    <<RequestedMarker(start_index + 1), RequestedMarker(start_index + 2)>>

\* A response that follows the requested format literally for the messages
\* i..count of the batch: for each, its marker, a space, its summary and a
\* line end.
RECURSIVE LiteralFrom(_, _, _)
LiteralFrom(start_index, count, i) ==
    IF i > count THEN <<>>
    ELSE RequestedMarker(PromptNumber(start_index, i))
           \o <<SP, W(PromptNumber(start_index, i)), NL>>
           \o LiteralFrom(start_index, count, i + 1)

LiteralResponse(start_index, count) == LiteralFrom(start_index, count, 1)

\* ------------------------------------------------------ Mailbox Client

\* Mutant of fetch_emails_last_24h: the first message that fails ends the
\* loop.
FetchUntilFailure(mailbox) ==
    IF mailbox.kind # "ok" THEN <<>>
    ELSE SelectSeq([i \in 1..mailbox.m |-> i],
                   LAMBDA id : \A b \in mailbox.bad : id < b)

\* EmailSummarizerAgent.fetch_emails_last_24h: the messages of the search
\* result in order, without those that fail in the loop; [] on any failure
\* outside the loop.
fetch_emails_last_24h(mailbox) ==
    IF mailbox.kind # "ok" THEN <<>>
    ELSE SelectSeq([i \in 1..mailbox.m |-> i], LAMBDA id : id \notin mailbox.bad)

\* ------------------------------------------------------ persistence

\* store_email_data_for_dashboard, line 1386: str(summary)[:500]
StoredSummaryLimit == 500

\* How the database behaves in one store: "ok", "error" (an exception outside
\* the row loop: nothing is committed), or "rows" (the inserts of the rows in
\* bad fail and are skipped).
StoreOutcomes(n) ==
    {[kind |-> "ok", bad |-> {}], [kind |-> "error", bad |-> {}]}
      \cup {[kind |-> "rows", bad |-> b] :
               b \in (SUBSET (1..Min(n, MaxFailRow))) \ {{}}}

\* Mutant of RunRecord: processed_emails counts the entries that are not a
\* fallback string.
RunRecordGenuine(emails, summaries) ==
    LET genuine == {k \in DOMAIN summaries :
                      summaries[k] \notin {API_ERROR, NOT_AVAILABLE}}
    IN  [total_emails |-> Len(emails),
         processed_emails |-> Cardinality(genuine),
         success_rate |-> IF Len(emails) > 0
                          THEN <<Cardinality(genuine) * 100, Len(emails)>>
                          ELSE <<0, 1>>,
         status |-> "completed"]

\* The run record of lines 1349-1364.  success_rate is kept as the pair of
\* integers of processed_emails / total_emails * 100.
RunRecord(emails, summaries) ==
    [total_emails |-> Len(emails),
     processed_emails |-> Cardinality(DOMAIN summaries),
     success_rate |-> IF Len(emails) > 0
                      THEN <<Cardinality(DOMAIN summaries) * 100, Len(emails)>>
                      ELSE <<0, 1>>,
     status |-> "completed"]

\* Mutant of EmailRows: the loop stops before the last message.
EmailRowsShort(run_id, emails, summaries, bad) ==
    {[run_id |-> run_id,
      email_number |-> i,
      email |-> emails[i],
      summary |-> TakeChars(IF i \in DOMAIN summaries THEN summaries[i]
                            ELSE NOT_AVAILABLE, StoredSummaryLimit)]
       : i \in (1..(Len(emails) - 1)) \ bad}

\* The email rows of lines 1372-1393: one per message, numbered from 1, with
\* all_summaries.get(i, "Summary not available").
EmailRows(run_id, emails, summaries, bad) ==
    {[run_id |-> run_id,
      email_number |-> i,
      email |-> emails[i],
      summary |-> TakeChars(IF i \in DOMAIN summaries THEN summaries[i]
                            ELSE NOT_AVAILABLE, StoredSummaryLimit)]
       : i \in (1..Len(emails)) \ bad}

\* ------------------------------------------------------ the web service

\* The browsers that talk to the web service.  A Flask session lives in the
\* signed cookie of the browser it belongs to; the server keeps no list of
\* sessions.
Clients == {"a", "b"}

\* lines 33-34: the defaults of DASHBOARD_USERNAME and DASHBOARD_PASSWORD.
DEFAULT_USERNAME == "admin"
DEFAULT_PASSWORD == "admin123"

\* What is typed into the forms.
Usernames == {DEFAULT_USERNAME, "guest"}
Passwords == {"admin123", "newpass99", "letmein2026", "short"}

\* len(password)
PasswordLen(password) ==
    IF password = "short" THEN 5
    ELSE IF password = "admin123" THEN 8
    ELSE IF password = "newpass99" THEN 9
    ELSE 11

\* bcrypt.hashpw(password, bcrypt.gensalt()): a hash stands for the password
\* it was made from.
hashpw(password) == password

\* bcrypt.checkpw(password, hashed)
checkpw(password, hashed) == hashed = hashpw(password)

\* The session of a browser that is not logged in: no key.
NoCookie == [logged_in |-> FALSE, username |-> "none"]

\* lines 81-83: the session after a login.
LoggedIn(username) == [logged_in |-> TRUE, username |-> username]

NoCookies == [c \in Clients |-> NoCookie]

\* line 53: 'logged_in' in session
login_required(cookie) == cookie.logged_in

\* line 61: 'logged_in' in session and session.get('username') is the admin
admin_required(cookie) ==
    cookie.logged_in /\ cookie.username = DEFAULT_USERNAME

NoRequest == [route |-> "none", client |-> "none", result |-> "none",
              body |-> <<>>]

\* A request of client c to a route, and what the handler returned.
Response(route, c, result, body) ==
    [route |-> route, client |-> c, result |-> result, body |-> body]

\* The database file: the run records by id, the email rows, and which of
\* the two tables exist.  A table that does not exist holds nothing.
Database(runs, rows, tabs) ==
    [summary_runs |-> runs, email_data |-> rows, tables |-> tabs]

\* The statements of init_db in their order (lines 165, 166, 168-179,
\* 181-194, 197-199).  Each is committed on its own: sqlite3 opens no
\* transaction for them.  The three CREATE INDEX statements change nothing
\* the model keeps and are taken together.
InitDbStatements ==
    <<"drop_summary_runs", "drop_email_data", "create_summary_runs",
      "create_email_data", "create_indexes">>

\* The statement that follows pc in init_db, "return" after the last one.
InitDbAfter(pc) ==
    LET i == CHOOSE k \in 1..Len(InitDbStatements) : InitDbStatements[k] = pc
    IN  IF i = Len(InitDbStatements) THEN "return"
        ELSE InitDbStatements[i + 1]

\* CREATE INDEX ... ON email_data raises when there is no such table.
InitDbRaises(pc, db) == pc = "create_indexes" /\ ~db.tables.email_data

\* Mutant of InitDbStatement: the tables are created if missing, never
\* dropped.
InitDbStatementKeeps(pc, db) ==
    IF pc = "create_summary_runs"
    THEN [db EXCEPT !.tables.summary_runs = TRUE]
    ELSE IF pc = "create_email_data"
    THEN [db EXCEPT !.tables.email_data = TRUE]
    ELSE db

\* One statement of init_db on the database.  DROP TABLE IF EXISTS removes
\* the table with what it holds, and the ids of a summary_runs table created
\* afterwards start from 1; CREATE TABLE IF NOT EXISTS leaves an existing
\* table as it is.
InitDbStatement(pc, db) ==
    IF pc = "drop_summary_runs"
    THEN [db EXCEPT !.summary_runs = <<>>, !.tables.summary_runs = FALSE]
    ELSE IF pc = "drop_email_data"
    THEN [db EXCEPT !.email_data = {}, !.tables.email_data = FALSE]
    ELSE IF pc = "create_summary_runs"
    THEN [db EXCEPT !.tables.summary_runs = TRUE]
    ELSE IF pc = "create_email_data"
    THEN [db EXCEPT !.tables.email_data = TRUE]
    ELSE db

\* init_db, lines 157-203, when nothing else touches the database while it
\* runs: its statements one after the other.
RECURSIVE InitDbFrom(_, _)
InitDbFrom(pc, db) ==
    IF pc = "return" THEN db
    ELSE InitDbFrom(InitDbAfter(pc), InitDbStatement(pc, db))

init_db(db) == InitDbFrom(InitDbStatements[1], db)

\* The rows as the table email_data holds them after their INSERT: each
\* gets the next id of the table (id INTEGER PRIMARY KEY AUTOINCREMENT,
\* line 183), in the order of the inserts, which is the order of the
\* numbers.  Rows leave the table only when it is dropped, so that the
\* largest id given so far is the number of rows.
Inserted(table, rows) ==
    {[run_id |-> r.run_id, email_number |-> r.email_number,
      email |-> r.email, summary |-> r.summary,
      id |-> Cardinality(table)
               + Cardinality({q \in rows :
                                q.email_number <= r.email_number})]
       : r \in rows}

\* The rows of a store of n messages whose INSERT may raise.
RowFailures(n) == SUBSET (1..Min(n, MaxFailRow))

\* store_email_data_for_dashboard, lines 1339-1408, on the database: one
\* transaction, committed at line 1396.  failed: the database is locked or
\* fails otherwise before the row loop, and nothing is stored.  Without the
\* summary_runs table the insert of the run record raises and nothing is
\* stored.  A row whose INSERT raises is skipped (lines 1391-1393) and the
\* run record is committed with the rows that went in: the rows in bad, and
\* every row when there is no email_data table.  run_id is the id the run
\* record got (line 1366), 0 when nothing was stored.
StoreInto(db, emails, summaries, failed, bad) ==
    IF failed \/ ~db.tables.summary_runs
    THEN [db |-> db, inserted_count |-> 0, stored |-> FALSE, run_id |-> 0]
    ELSE LET rows == IF db.tables.email_data
                     THEN EmailRows(Len(db.summary_runs) + 1, emails,
                                    summaries, bad)
                     ELSE {}
         IN  [db |-> [db EXCEPT
                        !.summary_runs =
                           Append(@, RunRecord(emails, summaries)),
                        !.email_data = @ \cup Inserted(@, rows)],
              inserted_count |-> Cardinality(rows),
              stored |-> TRUE,
              run_id |-> Len(db.summary_runs) + 1]

\* force_test_run, lines 771-790: the two sample messages ("Test Email 1"
\* and "Test Email 2", written 0 - 1 and 0 - 2) and their summaries.
sample_emails == <<0 - 1, 0 - 2>>

sample_summaries ==
    [i \in 1..2 |-> << <<"fs", i, IF i = 1 THEN 95 ELSE 84>> >>]

\* fix_database, lines 732-751: the test run and its two email rows.
TestRun ==
    [total_emails |-> 2, processed_emails |-> 2, success_rate |-> <<100, 1>>,
     status |-> "test"]

TestRows(run_id) ==
    {[run_id |-> run_id, email_number |-> i, email |-> 0 - i,
      summary |-> << <<"ts", i, 35>> >>] : i \in 1..2}

\* get_fallback_email_data, lines 909-926: the two built-in placeholder
\* emails.
get_fallback_email_data ==
    <<[number |-> 1, email |-> 0 - 11, summary |-> << <<"fb", 1, 113>> >>],
      [number |-> 2, email |-> 0 - 12, summary |-> << <<"fb", 2, 113>> >>]>>

\* lines 882-890: the entry of the response made from a row.
Entry(row) ==
    [number |-> row.email_number, email |-> row.email, summary |-> row.summary]

\* ORDER BY email_number; rows of the same number come in the order of
\* their ids.
RECURSIVE RowsSorted(_)
RowsSorted(rows) ==
    IF rows = {} THEN <<>>
    ELSE LET first == CHOOSE r \in rows :
                        \A q \in rows :
                           \/ r.email_number < q.email_number
                           \/ r.email_number = q.email_number /\ r.id <= q.id
         IN  <<Entry(first)>> \o RowsSorted(rows \ {first})

\* get_recent_summaries, lines 870-896: the rows of the run run_id in the
\* order of their numbers; the placeholder emails when that run has no row.
RunData(run_id, rows) ==
    LET found == RowsSorted({r \in rows : r.run_id = run_id})
    IN  IF found = <<>> THEN get_fallback_email_data ELSE found

\* get_recent_summaries, lines 858-899, when nothing else touches the
\* database between its two queries: the rows of the run with the largest
\* id; the placeholder emails when there is no run or the latest run has
\* no row.
LatestRunData(runs, rows) ==
    IF runs = <<>> THEN get_fallback_email_data
    ELSE RunData(Len(runs), rows)

\* A bag with one more, or one fewer, copy of e.
Put(bag, e) == bag (+) SetToBag({e})

Take(bag, e) == bag (-) SetToBag({e})

\* A change_password request of browser c that has passed the checks and
\* stands before line 141.
Change(c, new_password) == [client |-> c, new_password |-> new_password]

\* No change_password request is in flight.
NoChanges == EmptyBag

\* Both tables exist, as after an init_db that returned.
BothTables == [summary_runs |-> TRUE, email_data |-> TRUE]

\* A database file without tables.
NoTables == [summary_runs |-> FALSE, email_data |-> FALSE]

\* No init_db call is in flight.
NoInits == EmptyBag

\* A get_recent_summaries request of browser c that has read the id of the
\* latest run (lines 859-867) and stands before the query of line 871.
ReadAt(c, run_id) == [client |-> c, run_id |-> run_id]

\* No get_recent_summaries request stands between its queries.
NoReads == EmptyBag

\* The number of init_db calls and get_recent_summaries requests that stand
\* between their statements.
Open(calls_in_flight, reads_in_flight) ==
    BagCardinality(calls_in_flight) + BagCardinality(reads_in_flight)

\* A run that has just been started (lines 1476-1477 for a cron invocation,
\* lines 933-944 for the manual trigger); requests counts its generation
\* requests, run_id is the id its run record got (line 1366), 0 as long as
\* it has stored none.
NewRun ==
    [pc |-> "started", emails_data |-> <<>>, all_summaries |-> EmptyDict,
     requests |-> 0, run_id |-> 0]

\* The process of a cron invocation that has not yet loaded the module.
LoadingRun == [NewRun EXCEPT !.pc = "loading"]

\* A run that has ended without a run record: its locals are gone.
EndedRun == [NewRun EXCEPT !.pc = "done"]

\* A run that has ended after its store, which gave its record the id
\* run_id (0: nothing was stored).
StoredRun(run_id) == [EndedRun EXCEPT !.run_id = run_id]

\* What the mailbox server does for a run of the web service.
RunMailboxes ==
    [kind : {"ok"}, m : 0..MaxRunEmails, bad : {{}}]
      \cup [kind : {"login"}, m : {0}, bad : {{}}]

\* What the generation service does for the one request of a run of the web
\* service: the request fails, or the reply holds a summary for every
\* message of the batch.
RunOutcomes(count) ==
    {o \in FailureOutcomes \cup SuccessOutcomes(count) :
       \/ o.kind = "network"
       \/ o.kind = "ok" /\ o.style = "bold" /\ o.omit = 0}

\* Whether the database file is locked by another process for longer than
\* sqlite3 waits (5 seconds), so that the statement raises.
Locked == BOOLEAN

\* An init_db call in flight: who made it ("load": a process that loads the
\* module, line 206; "cron": a cron invocation, whose run is thread;
\* "fix": the fix_database request of client), and the statement it is at.
\* runs says whether run records that were in the database when the call
\* began are still there, rows says the same of the email rows.  A table
\* loses what it holds only when it is dropped, and then all of it.
InitAt(caller, client, thread, pc, db) ==
    [caller |-> caller, client |-> client, thread |-> thread, pc |-> pc,
     runs |-> db.summary_runs # <<>>, rows |-> db.email_data # {}]

\* The call after a statement of init_db has made the database db: what
\* was in a table that is empty now is gone.
Forget(call, db) ==
    [call EXCEPT !.runs = @ /\ db.summary_runs # <<>>,
                 !.rows = @ /\ db.email_data # {}]

\* The calls in flight after the database has become db.
RECURSIVE ForgetAll(_, _)
ForgetAll(bag, db) ==
    IF BagToSet(bag) = {} THEN EmptyBag
    ELSE LET call == CHOOSE e \in BagToSet(bag) : TRUE
         IN  ForgetAll(bag (-) SetToBag({call}), db)
               (+) SetToBag({Forget(call, db)})

\* ------------------------------------------------------ state

VARIABLES
    pc,             \* where run_complete_summary stands
    emails_data,    \* the fetched messages (message ids), in order
    batch_num,      \* the loop variable of summarize_emails_in_batches
    all_summaries,  \* the dict all_summaries
    calls,          \* the generation requests issued, with how each ended
    sleeps,         \* the number of time.sleep(3) calls made
    handed,         \* the arguments of store_email_data_for_dashboard
    summary_runs,   \* table summary_runs: the run records, by id
    email_data,     \* table email_data: the set of rows
    storage,        \* how the store of this run went
    parse,          \* the parser under test: its arguments and its result
    config,         \* the entry point and the environment variables
    mailbox,        \* what the mailbox server does in this run
    session,        \* the IMAP session: "none", "open" or "closed"
    error,          \* the exception the entry point caught, or "none"
    threads,        \* the runs started in the background, in start order
    cookies,        \* the Flask session each browser holds in its cookie
    HASHED_PASSWORD, \* the global HASHED_PASSWORD of the web process
    request,        \* the request answered last, with its response
    changing,       \* the bag of change_password requests in flight
    tables,         \* which of the two tables exist in the database file
    inits,          \* the bag of init_db calls in flight
    reading         \* the bag of get_recent_summaries requests in flight

\* The state of the web service.
web == <<threads, cookies, HASHED_PASSWORD, request, changing, tables, inits,
         reading>>

vars == <<pc, emails_data, batch_num, all_summaries, calls, sleeps, handed,
          summary_runs, email_data, storage, parse, config, mailbox, session,
          error, threads, cookies, HASHED_PASSWORD, request, changing,
          tables, inits, reading>>

NoCall == [text |-> <<>>, start |-> 0, count |-> 0, built |-> FALSE,
           inj |-> <<>>, omit |-> 0, state |-> "none", out |-> EmptyDict]

NotStored == [kind |-> "none", bad |-> {}, storage_success |-> FALSE]

NotHanded == [given |-> FALSE, emails |-> <<>>, summaries |-> EmptyDict]

Init ==
    /\ pc = "idle"
    /\ emails_data = <<>>
    /\ batch_num = 0
    /\ all_summaries = EmptyDict
    /\ calls = <<>>
    /\ sleeps = 0
    /\ handed = NotHanded
    /\ summary_runs = <<>>
    /\ email_data = {}
    /\ storage = NotStored
    /\ parse = NoCall
    /\ config \in Configs
    /\ mailbox = NoMailbox
    /\ session = "none"
    /\ error = "none"
    /\ threads = <<>>
    /\ cookies = NoCookies
    /\ HASHED_PASSWORD = hashpw(DEFAULT_PASSWORD)
    /\ request = NoRequest
    /\ changing = NoChanges
    /\ tables = BothTables
    /\ inits = NoInits
    /\ reading = NoReads

\* ------------------------------------------------------ run_complete_summary

\* scheduled_summary (lines 1474-1482) and run_background (lines 934-940):
\* the agent is constructed; a ValueError of the constructor is caught by
\* the entry point, which ends without a run.
Construct ==
    /\ pc = "idle"
    /\ error' = MissingVar(config.env)
    /\ pc' = IF MissingVar(config.env) = "none" THEN "constructed"
             ELSE "failed"
    /\ UNCHANGED <<emails_data, batch_num, all_summaries, calls, sleeps,
                   handed, summary_runs, email_data, storage, parse, config,
                   mailbox, session, web>>

\* lines 1293 and 980-983: run_complete_summary calls fetch_emails_last_24h,
\* which turns to the mailbox server.
Connect ==
    /\ pc = "constructed"
    /\ mailbox' \in MailboxOutcomes \cup {MailboxHangs}
    /\ pc' = "fetching"
    /\ UNCHANGED <<emails_data, batch_num, all_summaries, calls, sleeps,
                   handed, summary_runs, email_data, storage, parse, config,
                   session, error, web>>

\* Mutant of Fetch: fetch_emails_last_24h lets a failure outside the loop
\* out, and the handler of lines 1332-1334 ends the run.
FetchRaises ==
    /\ pc = "fetching"
    /\ mailbox.kind # "hang"
    /\ emails_data' = fetch_emails_last_24h(mailbox)
    /\ session' = SessionAfter(mailbox)
    /\ pc' = IF mailbox.kind \in {"ok", "not_ok"} THEN "fetched" ELSE "done"
    /\ UNCHANGED <<batch_num, all_summaries, calls, sleeps, handed,
                   summary_runs, email_data, storage, parse, config, mailbox,
                   error, web>>

\* line 1293: emails_data = self.fetch_emails_last_24h(), once the mailbox
\* server has answered.
Fetch ==
    /\ pc = "fetching"
    /\ mailbox.kind # "hang"
    /\ emails_data' = fetch_emails_last_24h(mailbox)
    /\ session' = SessionAfter(mailbox)
    /\ pc' = "fetched"
    /\ UNCHANGED <<batch_num, all_summaries, calls, sleeps, handed,
                   summary_runs, email_data, storage, parse, config, mailbox,
                   error, web>>

\* lines 1295-1299: nothing fetched: an empty run record is stored.
NoEmails ==
    /\ pc = "fetched"
    /\ emails_data = <<>>
    /\ handed' = [given |-> TRUE, emails |-> <<>>, summaries |-> EmptyDict]
    /\ pc' = "storing"
    /\ UNCHANGED <<emails_data, batch_num, all_summaries, calls, sleeps,
                   summary_runs, email_data, storage, parse, config,
                   mailbox, session, error, web>>

\* Mutant of StartSummarize: run_complete_summary lacks the early return of
\* lines 1295-1299, so summarize_emails_in_batches is entered for an empty
\* fetch as well.
StartSummarizeUnguarded ==
    /\ pc = "fetched"
    /\ all_summaries' = EmptyDict
    /\ batch_num' = 0
    /\ pc' = IF emails_data = <<>> THEN "summarized" ELSE "loop"
    /\ UNCHANGED <<emails_data, calls, sleeps, handed, summary_runs,
                   email_data, storage, parse, config,
                   mailbox, session, error, web>>

\* line 1304 and lines 1100-1110: summarize_emails_in_batches is entered.
StartSummarize ==
    /\ pc = "fetched"
    /\ emails_data # <<>>
    /\ all_summaries' = EmptyDict
    /\ batch_num' = 0
    /\ pc' = IF emails_data = <<>> THEN "summarized" ELSE "loop"
    /\ UNCHANGED <<emails_data, calls, sleeps, handed, summary_runs,
                   email_data, storage, parse, config,
                   mailbox, session, error, web>>

\* Mutant of SendRequest: the request of a batch is sent without waiting for
\* the request before it.
SendRequestEager ==
    /\ pc \in {"loop", "awaiting"}
    /\ Len(calls) * batch_size < Len(emails_data)
    /\ calls' = Append(calls, [start |-> Len(calls) * batch_size,
                               batch |-> BatchSlice(emails_data,
                                                    Len(calls) * batch_size),
                               outcome |-> PendingOutcome])
    /\ pc' = "awaiting"
    /\ UNCHANGED <<emails_data, batch_num, all_summaries, sleeps, handed,
                   summary_runs, email_data, storage, parse, config,
                   mailbox, session, error, web>>

\* lines 1110-1112 and 1122-1176: the next batch is sliced, its prompt is
\* built and the generation request is sent.
SendRequest ==
    /\ pc = "loop"
    /\ batch_num < Len(emails_data)
    /\ calls' = Append(calls, [start |-> batch_num,
                               batch |-> BatchSlice(emails_data, batch_num),
                               outcome |-> PendingOutcome])
    /\ pc' = "awaiting"
    /\ UNCHANGED <<emails_data, batch_num, all_summaries, sleeps, handed,
                   summary_runs, email_data, storage, parse, config,
                   mailbox, session, error, web>>

\* line 1116: batch_num + batch_size < len(emails_data)
MoreBatches == batch_num + batch_size < Len(emails_data)

\* Mutant of Merge: no pacing delay after a batch that failed.
MergeNoPaceOnFailure(batch_summaries, outcome) ==
    /\ all_summaries' = DictUpdate(all_summaries, batch_summaries)
    /\ calls' = [calls EXCEPT ![Len(calls)].outcome = outcome]
    /\ pc' = IF ~MoreBatches THEN "summarized"
             ELSE IF outcome.kind = "ok" THEN "pacing" ELSE "loop"
    /\ batch_num' = IF MoreBatches /\ outcome.kind # "ok"
                    THEN batch_num + batch_size ELSE batch_num
    /\ UNCHANGED <<emails_data, sleeps, handed, summary_runs, email_data,
                   storage, parse, config, mailbox, session, error, web>>

\* lines 1113-1118: the batch's entries are merged; then the pacing delay, or
\* the end of the loop.
Merge(batch_summaries, outcome) ==
    /\ all_summaries' = DictUpdate(all_summaries, batch_summaries)
    /\ calls' = [calls EXCEPT ![Len(calls)].outcome = outcome]
    /\ pc' = IF MoreBatches THEN "pacing" ELSE "summarized"
    /\ UNCHANGED <<emails_data, batch_num, sleeps, handed, summary_runs,
                   email_data, storage, parse, config,
                   mailbox, session, error, web>>

\* lines 1176-1186: the request returns a response text, which is parsed.
RequestSucceeds ==
    /\ pc = "awaiting"
    /\ LET call == calls[Len(calls)]
       IN  \E outcome \in SuccessOutcomes(Len(call.batch)) :
              Merge(extract_individual_summaries(
                        ReplyText(outcome, call.start, Len(call.batch)),
                        call.batch, call.start),
                    outcome)

\* Mutant of RequestFails: a failed request is sent again.
RequestFailsRetry ==
    /\ pc = "awaiting"
    /\ Len(calls) < 4
    /\ \E outcome \in FailureOutcomes :
          calls' = [calls EXCEPT ![Len(calls)].outcome = outcome]
    /\ pc' = "loop"
    /\ UNCHANGED <<emails_data, batch_num, all_summaries, sleeps, handed,
                   summary_runs, email_data, storage, parse, config,
                   mailbox, session, error, web>>

\* lines 1188-1194: the request fails; the batch gets the fallback string.
RequestFails ==
    /\ pc = "awaiting"
    /\ LET call == calls[Len(calls)]
       IN  \E outcome \in FailureOutcomes :
              Merge(FallbackSummaries(call.batch, call.start), outcome)

\* lines 1116-1118 and the loop step of line 1110: time.sleep(3), next batch.
Pace ==
    /\ pc = "pacing"
    /\ sleeps' = sleeps + 1
    /\ batch_num' = batch_num + batch_size
    /\ pc' = "loop"
    /\ UNCHANGED <<emails_data, all_summaries, calls, handed, summary_runs,
                   email_data, storage, parse, config,
                   mailbox, session, error, web>>

\* line 1309: the fetched messages and the summaries go to persistence.
HandOver ==
    /\ pc = "summarized"
    /\ handed' = [given |-> TRUE, emails |-> emails_data,
                  summaries |-> all_summaries]
    /\ pc' = "storing"
    /\ UNCHANGED <<emails_data, batch_num, all_summaries, calls, sleeps,
                   summary_runs, email_data, storage, parse, config,
                   mailbox, session, error, web>>

\* Mutant of Store: store_email_data_for_dashboard lets a database error
\* out, which reaches the entry point.
StoreRaises ==
    /\ pc = "storing"
    /\ \E db \in StoreOutcomes(Len(handed.emails)) :
          IF db.kind = "error"
          THEN /\ UNCHANGED <<summary_runs, email_data>>
               /\ storage' = [kind |-> db.kind, bad |-> db.bad,
                              storage_success |-> FALSE]
               /\ error' = "OperationalError"
               /\ pc' = "failed"
          ELSE /\ summary_runs' = Append(summary_runs,
                                     RunRecord(handed.emails, handed.summaries))
               /\ email_data' = email_data \cup
                                  Inserted(email_data,
                                    EmailRows(Len(summary_runs) + 1,
                                              handed.emails, handed.summaries,
                                              db.bad))
               /\ storage' = [kind |-> db.kind, bad |-> db.bad,
                              storage_success |->
                                  Len(handed.emails) > Cardinality(db.bad)]
               /\ error' = error
               /\ pc' = IF handed.emails = <<>> THEN "done" ELSE "stored"
    /\ UNCHANGED <<emails_data, batch_num, all_summaries, calls, sleeps,
                   handed, parse, config, mailbox, session, web>>

\* store_email_data_for_dashboard: the run record and the email rows are
\* inserted and committed, unless the database fails.
Store ==
    /\ pc = "storing"
    /\ \E db \in StoreOutcomes(Len(handed.emails)) :
          IF db.kind = "error"
          THEN /\ UNCHANGED <<summary_runs, email_data>>
               /\ storage' = [kind |-> db.kind, bad |-> db.bad,
                              storage_success |-> FALSE]
          ELSE /\ summary_runs' = Append(summary_runs,
                                     RunRecord(handed.emails, handed.summaries))
               /\ email_data' = email_data \cup
                                  Inserted(email_data,
                                    EmailRows(Len(summary_runs) + 1,
                                              handed.emails, handed.summaries,
                                              db.bad))
               /\ storage' = [kind |-> db.kind, bad |-> db.bad,
                              storage_success |->
                                  Len(handed.emails) > Cardinality(db.bad)]
    /\ pc' = IF handed.emails = <<>> THEN "done" ELSE "stored"
    /\ UNCHANGED <<emails_data, batch_num, all_summaries, calls, sleeps,
                   handed, parse, config, mailbox, session, error, web>>

\* lines 1311-1330: the result of the store is printed, verify_data_storage
\* and create_word_document are called; both catch their own exceptions and
\* their results are not used.
Finish ==
    /\ pc = "stored"
    /\ pc' = "done"
    /\ UNCHANGED <<emails_data, batch_num, all_summaries, calls, sleeps,
                   handed, summary_runs, email_data, storage, parse, config,
                   mailbox, session, error, web>>

Next ==
    \/ Construct
    \/ Connect
    \/ Fetch
    \/ NoEmails
    \/ StartSummarize
    \/ SendRequest
    \/ RequestSucceeds
    \/ RequestFails
    \/ Pace
    \/ HandOver
    \/ Store
    \/ Finish

Spec == Init /\ [][Next]_vars

\* The pipeline under fair scheduling: the process is not stopped from
\* outside, so a step of the program that can be taken is taken.  Fetch can
\* be taken only if the mailbox server answers.  A generation request that
\* is outstanding ends when the endpoint completes its reply or when a
\* read of the socket gets nothing for 60 seconds (timeout=60, line 1176,
\* is the limit of each read, not of the request): an endpoint that keeps
\* sending a little keeps the request outstanding, so neither
\* RequestSucceeds nor RequestFails is a step that has to be taken.
SpecLive ==
    /\ Spec
    /\ WF_vars(Construct)
    /\ WF_vars(Connect)
    /\ WF_vars(Fetch)
    /\ WF_vars(NoEmails)
    /\ WF_vars(StartSummarize)
    /\ WF_vars(SendRequest)
    /\ WF_vars(Pace)
    /\ WF_vars(HandOver)
    /\ WF_vars(Store)
    /\ WF_vars(Finish)

\* ------------------------------------------------------ the fetch alone

\* An environment in which the constructor returns.
GoodConfig ==
    [entry |-> "scheduled_summary",
     env |-> [v \in {RequiredVars[i] : i \in 1..Len(RequiredVars)} |-> "set"]]

\* Mailboxes that hold m messages: one of the failures outside the loop, or
\* a search result in which any set of messages fails in the loop.
FetchInputs(maxm) ==
    [kind : FetchFailures, m : 0..maxm, bad : {{}}]
      \cup UNION {[kind : {"ok"}, m : {m}, bad : SUBSET (1..m)] : m \in 0..maxm}

InitFetch ==
    /\ pc = "fetching"
    /\ emails_data = <<>>
    /\ batch_num = 0
    /\ all_summaries = EmptyDict
    /\ calls = <<>>
    /\ sleeps = 0
    /\ handed = NotHanded
    /\ summary_runs = <<>>
    /\ email_data = {}
    /\ storage = NotStored
    /\ parse = NoCall
    /\ config = GoodConfig
    /\ mailbox \in FetchInputs(MaxFetch)
    /\ session = "none"
    /\ error = "none"
    /\ threads = <<>>
    /\ cookies = NoCookies
    /\ HASHED_PASSWORD = hashpw(DEFAULT_PASSWORD)
    /\ request = NoRequest
    /\ changing = NoChanges
    /\ tables = BothTables
    /\ inits = NoInits
    /\ reading = NoReads

NextFetch == Fetch

SpecFetch == InitFetch /\ [][NextFetch]_vars

\* ------------------------------------------------------ the parser alone

\* The start indexes of the parser runs: the first two batches of a run.
StartIndexes == {0, batch_size}

\* The texts put together from at most k of the pieces.
RECURSIVE TextsOf(_, _)
TextsOf(pieces, k) ==
    IF k = 0 THEN {<<>>}
    ELSE LET shorter == TextsOf(pieces, k - 1)
         IN  shorter \cup {t \o piece : t \in shorter, piece \in pieces}

BoldMarker(n) == <<BB, EmailMark(n), BB>>

\* The pieces of an arbitrary response text for a batch: emphasis, white
\* space, a word, the plain markers of the batch and of the position after
\* it, two more spellings of the first marker, the first two bold markers.
Pieces(start, count) ==
    {<<BB>>, <<SP>>, <<NL>>, <<W(1)>>}
      \cup {<<EmailMark(n)>> : n \in (start + 1)..(start + count + 1)}
      \cup {<<EmailLower(start + 1)>>, <<EmailWide(start + 1)>>}
      \cup {BoldMarker(start + 1), BoldMarker(start + 2)}

\* The pieces of an injected text: emphasis, white space, a word, the long
\* word, the plain marker of the second position and that of a position far
\* after the batch.
InjPieces(start) ==
    {<<BB>>, <<SP>>, <<NL>>, <<W(1)>>, <<WX>>, <<EmailMark(start + 2)>>,
     <<EmailMark(start + batch_size)>>}

\* The injected texts of a batch: a plain word for every position but one,
\* which gets a text of at most MaxInj pieces.
Injections(start, count) ==
    {[i \in 1..count |-> IF i = j THEN r ELSE <<W(start + i)>>] :
        j \in 1..count, r \in TextsOf(InjPieces(start), MaxInj)}

\* The response text that holds, in increasing position order, the bold
\* marker of every position but the omit-th, each followed by its injected
\* text (omit = 0: every position).
RECURSIVE BuildFrom(_, _, _, _)
BuildFrom(start, inj, omit, i) ==
    IF i > Len(inj) THEN <<>>
    ELSE (IF i = omit THEN <<>> ELSE BoldMarker(start + i) \o inj[i])
           \o BuildFrom(start, inj, omit, i + 1)

BuildReply(start, inj, omit) == BuildFrom(start, inj, omit, 1)

\* The arguments of the parser runs: arbitrary texts for the batches that
\* start at batch_size, built texts for the batches of both start indexes.
ParserInputs(starts) ==
    UNION {
      {[text |-> t, start |-> batch_size, count |-> c, built |-> FALSE,
        inj |-> <<>>, omit |-> 0, state |-> "ready", out |-> EmptyDict] :
          t \in TextsOf(Pieces(batch_size, c), MaxPieces)}
      : c \in 1..MaxCount}
      \cup
    UNION {UNION {UNION {
      {[text |-> BuildReply(s, inj, k), start |-> s, count |-> c,
        built |-> TRUE, inj |-> inj, omit |-> k, state |-> "ready",
        out |-> EmptyDict] : k \in 0..c}
      : inj \in Injections(s, c)} : c \in 1..MaxBuilt} : s \in starts}

InitParse ==
    /\ pc = "idle"
    /\ emails_data = <<>>
    /\ batch_num = 0
    /\ all_summaries = EmptyDict
    /\ calls = <<>>
    /\ sleeps = 0
    /\ handed = NotHanded
    /\ summary_runs = <<>>
    /\ email_data = {}
    /\ storage = NotStored
    /\ parse \in ParserInputs(StartIndexes)
    /\ config = GoodConfig
    /\ mailbox = NoMailbox
    /\ session = "none"
    /\ error = "none"
    /\ threads = <<>>
    /\ cookies = NoCookies
    /\ HASHED_PASSWORD = hashpw(DEFAULT_PASSWORD)
    /\ request = NoRequest
    /\ changing = NoChanges
    /\ tables = BothTables
    /\ inits = NoInits
    /\ reading = NoReads

\* The batch of a parser run: count messages.
ParseBatch(p) == [i \in 1..p.count |-> p.start + i]

\* extract_individual_summaries is applied to the arguments.
ParseStep ==
    /\ parse.state = "ready"
    /\ parse' = [parse EXCEPT
                   !.state = "parsed",
                   !.out = extract_individual_summaries(
                               parse.text, ParseBatch(parse), parse.start)]
    /\ UNCHANGED <<pc, emails_data, batch_num, all_summaries, calls, sleeps,
                   handed, summary_runs, email_data, storage, config,
                   mailbox, session, error, web>>

NextParse == ParseStep

SpecParse == InitParse /\ [][NextParse]_vars

\* ------------------------------------------------------ authentication

\* The variables of the single run, which the web service does not touch.
pipeline == <<pc, emails_data, batch_num, all_summaries, calls, sleeps,
              handed, storage, parse, config, mailbox, session, error>>

\* What the requests of the authentication routes leave alone.
database == <<summary_runs, email_data, tables, inits, reading>>

\* login, lines 71-96 (POST): the session of the requesting browser gets
\* the keys of a login when the username is the admin's and the password is
\* the one HASHED_PASSWORD was made from.
login(c, username, password) ==
    /\ IF username = DEFAULT_USERNAME /\ checkpw(password, HASHED_PASSWORD)
       THEN /\ cookies' = [cookies EXCEPT ![c] = LoggedIn(username)]
            /\ request' = Response("/login", c, "redirect_next", <<>>)
       ELSE /\ cookies' = cookies
            /\ request' = Response("/login", c, "invalid", <<>>)
    /\ UNCHANGED <<pipeline, database, threads, HASHED_PASSWORD, changing>>

\* logout, lines 102-108: session.clear() on the session of the request.
logout(c) ==
    /\ cookies' = [cookies EXCEPT ![c] = NoCookie]
    /\ request' = Response("/logout", c, "redirect_login", <<>>)
    /\ UNCHANGED <<pipeline, database, threads, HASHED_PASSWORD, changing>>

\* change_password, lines 111-138 (POST): the checks, the first of them
\* against the global hash as it is now (line 123).  A request that passes
\* them goes on to hash the new password; the server handles requests in
\* threads (app.run, line 1493) and holds no lock, so other requests, of
\* the same browser too, are handled before the hash is assigned.
change_password(c, current_password, new_password, confirm_password) ==
    /\ IF ~admin_required(cookies[c])
       THEN /\ request' = Response("/change-password", c, "redirect_login", <<>>)
            /\ changing' = changing
       ELSE IF ~checkpw(current_password, HASHED_PASSWORD)
       THEN /\ request' = Response("/change-password", c, "incorrect", <<>>)
            /\ changing' = changing
       ELSE IF new_password # confirm_password
       THEN /\ request' = Response("/change-password", c, "mismatch", <<>>)
            /\ changing' = changing
       ELSE IF PasswordLen(new_password) < 8
       THEN /\ request' = Response("/change-password", c, "too_short", <<>>)
            /\ changing' = changing
       ELSE /\ BagCardinality(changing) < MaxChanging
            /\ request' = request
            /\ changing' = Put(changing, Change(c, new_password))
    /\ UNCHANGED <<pipeline, database, threads, cookies, HASHED_PASSWORD>>

\* change_password, lines 141-151, in the request ch in flight: the global
\* hash is replaced, session.clear() empties the session of the request,
\* and the browser is sent to the login page.
change_password_assign(ch) ==
    /\ BagIn(ch, changing)
    /\ HASHED_PASSWORD' = hashpw(ch.new_password)
    /\ cookies' = [cookies EXCEPT ![ch.client] = NoCookie]
    /\ request' = Response("/change-password", ch.client, "changed", <<>>)
    /\ changing' = Take(changing, ch)
    /\ UNCHANGED <<pipeline, database, threads>>

\* dashboard, lines 541-547: a login-protected route.
dashboard(c) ==
    /\ request' = Response("/dashboard", c,
                           IF login_required(cookies[c]) THEN "page"
                           ELSE "redirect_login", <<>>)
    /\ UNCHANGED <<pipeline, database, threads, cookies, HASHED_PASSWORD,
                   changing>>

InitAuth ==
    /\ pc = "idle"
    /\ emails_data = <<>>
    /\ batch_num = 0
    /\ all_summaries = EmptyDict
    /\ calls = <<>>
    /\ sleeps = 0
    /\ handed = NotHanded
    /\ summary_runs = <<>>
    /\ email_data = {}
    /\ storage = NotStored
    /\ parse = NoCall
    /\ config = GoodConfig
    /\ mailbox = NoMailbox
    /\ session = "none"
    /\ error = "none"
    /\ threads = <<>>
    /\ cookies = NoCookies
    /\ HASHED_PASSWORD = hashpw(DEFAULT_PASSWORD)
    /\ request = NoRequest
    /\ changing = NoChanges
    /\ tables = BothTables
    /\ inits = NoInits
    /\ reading = NoReads

NextAuth ==
    \/ \E c \in Clients, username \in Usernames, password \in Passwords :
         login(c, username, password)
    \/ \E c \in Clients : logout(c)
    \/ \E c \in Clients, current_password, new_password, confirm_password
                         \in Passwords :
         change_password(c, current_password, new_password, confirm_password)
    \/ \E ch \in BagToSet(changing) : change_password_assign(ch)
    \/ \E c \in Clients : dashboard(c)

SpecAuth == InitAuth /\ [][NextAuth]_vars

\* ------------------------------------------------------ the runs of the service

\* The database file as the variables hold it.
TheDatabase == Database(summary_runs, email_data, tables)

\* The database file becomes db.
Becomes(db) ==
    /\ summary_runs' = db.summary_runs
    /\ email_data' = db.email_data
    /\ tables' = db.tables

\* What neither a run nor the database requests touch.
sessions == <<cookies, HASHED_PASSWORD, changing>>

\* Mutant of trigger_manual_run: a run is started only when no run is in
\* flight.
TriggerManualExclusive(c) ==
    /\ IF ~admin_required(cookies[c])
       THEN /\ threads' = threads
            /\ request' = Response("/api/trigger-manual", c, "redirect_login",
                                   <<>>)
       ELSE IF \E t \in 1..Len(threads) : threads[t].pc # "done"
       THEN /\ threads' = threads
            /\ request' = Response("/api/trigger-manual", c, "busy", <<>>)
       ELSE /\ threads' = Append(threads, NewRun)
            /\ request' = Response("/api/trigger-manual", c, "success", <<>>)
    /\ UNCHANGED <<pipeline, database, sessions>>

\* trigger_manual_run, lines 929-953: a thread is started for run_background
\* and the handler returns at once.
trigger_manual_run(c) ==
    /\ IF ~admin_required(cookies[c])
       THEN /\ threads' = threads
            /\ request' = Response("/api/trigger-manual", c, "redirect_login",
                                   <<>>)
       ELSE /\ threads' = Append(threads, NewRun)
            /\ request' = Response("/api/trigger-manual", c, "success", <<>>)
    /\ UNCHANGED <<pipeline, database, sessions>>

\* A process starts and loads the module: the init_db() of line 206 is
\* called.  Nothing keeps two calls of init_db from running at once.
LoadModule ==
    /\ BagCardinality(inits) < MaxInits
    /\ Open(inits, reading) < MaxOpen
    /\ inits' = Put(inits, InitAt("load", "none", 0, InitDbStatements[1],
                             TheDatabase))
    /\ UNCHANGED <<pipeline, summary_runs, email_data, tables, threads,
                   sessions, reading, request>>

\* A cron invocation (lines 1485-1489) starts: its process loads the module
\* (the init_db() of line 206) before scheduled_summary starts the run.
CronInvocation ==
    /\ BagCardinality(inits) < MaxInits
    /\ Open(inits, reading) < MaxOpen
    /\ threads' = Append(threads, LoadingRun)
    /\ inits' = Put(inits, InitAt("cron", "none", Len(threads) + 1,
                                  InitDbStatements[1], TheDatabase))
    /\ UNCHANGED <<pipeline, summary_runs, email_data, tables, sessions, reading,
                   request>>

\* fix_database, lines 717-724: the request of an admin calls init_db().
fix_database(c) ==
    /\ IF ~admin_required(cookies[c])
       THEN /\ request' = Response("/api/fix-database", c, "redirect_login",
                                   <<>>)
            /\ inits' = inits
       ELSE /\ BagCardinality(inits) < MaxInits
            /\ Open(inits, reading) < MaxOpen
            /\ request' = request
            /\ inits' = Put(inits, InitAt("fix", c, 0, InitDbStatements[1],
                                    TheDatabase))
    /\ UNCHANGED <<pipeline, summary_runs, email_data, tables, threads,
                   sessions, reading>>

\* The init_db call raises: the loading process ends without having loaded
\* the module (a cron invocation makes no run), fix_database answers 500
\* (lines 762-763).  What the statements before have done stays.
InitDbFails(call) ==
    /\ inits' = Take(inits, call)
    /\ threads' = IF call.caller = "cron"
                  THEN [threads EXCEPT ![call.thread] = EndedRun]
                  ELSE threads
    /\ request' = IF call.caller = "fix"
                  THEN Response("/api/fix-database", call.client, "error",
                                <<>>)
                  ELSE request
    /\ UNCHANGED <<summary_runs, email_data, tables>>

\* The init_db call returns: the module is loaded (and the run of a cron
\* invocation starts, lines 1489 and 1476-1477), fix_database goes on to
\* its inserts.
InitDbReturns(call) ==
    /\ inits' = IF call.caller = "fix"
                THEN Put(Take(inits, call), [call EXCEPT !.pc = "insert"])
                ELSE Take(inits, call)
    /\ threads' = IF call.caller = "cron"
                  THEN [threads EXCEPT ![call.thread].pc = "started"]
                  ELSE threads
    /\ request' = request

\* The next statement of the init_db call in flight.  What the statement
\* drops is gone for every call in flight.
InitDbStep(call) ==
    /\ BagIn(call, inits)
    /\ call.pc # "insert"
    /\ \E locked \in Locked :
         IF locked \/ InitDbRaises(call.pc, TheDatabase)
         THEN InitDbFails(call)
         ELSE LET db == InitDbStatement(call.pc, TheDatabase)
              IN  /\ Becomes(db)
                  /\ IF InitDbAfter(call.pc) = "return"
                     THEN InitDbReturns(call)
                     ELSE /\ inits' =
                               Put(ForgetAll(Take(inits, call), db),
                                   [Forget(call, db) EXCEPT
                                      !.pc = InitDbAfter(call.pc)])
                          /\ UNCHANGED <<threads, request>>
    /\ UNCHANGED <<pipeline, sessions, reading>>

\* fix_database, lines 726-763: on a connection of its own the test run is
\* inserted, and its rows under the id that run got, in one transaction.
\* When a table is missing or the database is locked the statement raises,
\* nothing is committed and the answer is 500.
fix_database_insert(call) ==
    /\ BagIn(call, inits)
    /\ call.pc = "insert"
    /\ \E locked \in Locked :
         IF locked \/ ~tables.summary_runs \/ ~tables.email_data
         THEN /\ request' = Response("/api/fix-database", call.client,
                                     "error", <<>>)
              /\ UNCHANGED <<summary_runs, email_data>>
         ELSE /\ summary_runs' = Append(summary_runs, TestRun)
              /\ email_data' = email_data \cup
                   Inserted(email_data, TestRows(Len(summary_runs) + 1))
              /\ request' = Response("/api/fix-database", call.client,
                                     "success", <<>>)
    /\ inits' = Take(inits, call)
    /\ UNCHANGED <<pipeline, tables, threads, sessions, reading>>

\* force_test_run, lines 766-801: the two sample messages and their
\* summaries are stored like the data of a run; the answer says "success"
\* when a row was inserted and "error" otherwise.
force_test_run(c) ==
    /\ IF ~admin_required(cookies[c])
       THEN /\ request' = Response("/api/force-test-run", c, "redirect_login",
                                   <<>>)
            /\ UNCHANGED <<summary_runs, email_data, tables>>
       ELSE \E locked \in Locked, bad \in RowFailures(Len(sample_emails)) :
              LET result == StoreInto(TheDatabase, sample_emails,
                                      sample_summaries, locked, bad)
              IN  /\ Becomes(result.db)
                  /\ request' = Response("/api/force-test-run", c,
                                         IF result.inserted_count > 0
                                         THEN "success" ELSE "error", <<>>)
    /\ UNCHANGED <<pipeline, inits, threads, sessions, reading>>

\* get_recent_summaries, lines 850-867: the first query reads the id of the
\* latest run.  When the query raises (the database is locked, the table
\* is missing, lines 901-905) or finds no run (lines 862-865) the answer is
\* the placeholder emails; otherwise the request goes on to its second
\* query with that id.  The two queries are statements of their own:
\* other connections can commit between them.
get_recent_summaries(c) ==
    /\ IF ~login_required(cookies[c])
       THEN /\ request' = Response("/api/recent-summaries", c,
                                   "redirect_login", <<>>)
            /\ reading' = reading
       ELSE \E locked \in Locked :
              IF locked \/ ~tables.summary_runs \/ summary_runs = <<>>
              THEN /\ request' = Response("/api/recent-summaries", c, "json",
                                          get_fallback_email_data)
                   /\ reading' = reading
              ELSE /\ BagCardinality(reading) < MaxReading
                   /\ Open(inits, reading) < MaxOpen
                   /\ request' = request
                   /\ reading' = Put(reading, ReadAt(c, Len(summary_runs)))
    /\ UNCHANGED <<pipeline, summary_runs, email_data, tables, inits,
                   threads, sessions>>

\* get_recent_summaries, lines 870-905, in the request rd in flight: the
\* second query reads the rows stored under the id the first query found,
\* from the table as it is now; the answer is the placeholder emails when
\* there is none or when the query raises (the database is locked, the
\* table is missing).
get_recent_summaries_rows(rd) ==
    /\ BagIn(rd, reading)
    /\ \E locked \in Locked :
         request' = Response("/api/recent-summaries", rd.client, "json",
                             IF locked \/ ~tables.email_data
                             THEN get_fallback_email_data
                             ELSE RunData(rd.run_id, email_data))
    /\ reading' = Take(reading, rd)
    /\ UNCHANGED <<pipeline, summary_runs, email_data, tables, inits,
                   threads, sessions>>

\* line 1293 in the run of thread t.
RunFetch(t) ==
    /\ threads[t].pc = "started"
    /\ \E outcome \in RunMailboxes :
          threads' = [threads EXCEPT
                        ![t].pc = "fetched",
                        ![t].emails_data = fetch_emails_last_24h(outcome)]
    /\ UNCHANGED <<pipeline, database, sessions, request>>

\* line 1304 in the run of thread t: summarize_emails_in_batches over the
\* one batch of the run, with its one generation request.
RunSummarize(t) ==
    /\ threads[t].pc = "fetched"
    /\ threads[t].emails_data # <<>>
    /\ LET batch == threads[t].emails_data
       IN  \E outcome \in RunOutcomes(Len(batch)) :
              threads' = [threads EXCEPT
                ![t].pc = "summarized",
                ![t].requests = 1,
                ![t].all_summaries =
                   DictUpdate(EmptyDict,
                     IF outcome.kind = "ok"
                     THEN extract_individual_summaries(
                              ReplyText(outcome, 0, Len(batch)), batch, 0)
                     ELSE FallbackSummaries(batch, 0))]
    /\ UNCHANGED <<pipeline, database, sessions, request>>

\* lines 1298 and 1309 in the run of thread t: the store, after which the
\* run ends (what follows the store writes nothing).
RunStore(t) ==
    /\ \/ threads[t].pc = "summarized"
       \/ threads[t].pc = "fetched" /\ threads[t].emails_data = <<>>
    /\ \E locked \in Locked,
          bad \in RowFailures(Len(threads[t].emails_data)) :
          LET result == StoreInto(TheDatabase, threads[t].emails_data,
                                  threads[t].all_summaries, locked, bad)
          IN  /\ Becomes(result.db)
              /\ threads' = [threads EXCEPT ![t] = StoredRun(result.run_id)]
    /\ UNCHANGED <<pipeline, inits, sessions, reading, request>>

\* The web service has started: client a is logged in, client b is not.
ServiceCookies ==
    [c \in Clients |-> IF c = "a" THEN LoggedIn(DEFAULT_USERNAME) ELSE NoCookie]

InitService ==
    /\ pc = "idle"
    /\ emails_data = <<>>
    /\ batch_num = 0
    /\ all_summaries = EmptyDict
    /\ calls = <<>>
    /\ sleeps = 0
    /\ handed = NotHanded
    /\ summary_runs = init_db(Database(<<>>, {}, NoTables)).summary_runs
    /\ email_data = init_db(Database(<<>>, {}, NoTables)).email_data
    /\ tables = init_db(Database(<<>>, {}, NoTables)).tables
    /\ storage = NotStored
    /\ parse = NoCall
    /\ config = GoodConfig
    /\ mailbox = NoMailbox
    /\ session = "none"
    /\ error = "none"
    /\ threads = <<>>
    /\ cookies = ServiceCookies
    /\ HASHED_PASSWORD = hashpw(DEFAULT_PASSWORD)
    /\ request = NoRequest
    /\ changing = NoChanges
    /\ inits = NoInits
    /\ reading = NoReads

\* The steps of the web service and of the processes next to it; runs are
\* started while fewer than MaxBusy have been, force_test_run is called
\* while the run table holds fewer than MaxRecords records, init_db is
\* called while fewer than MaxInits calls of it are in flight, fewer than
\* MaxReading get_recent_summaries requests stand between their queries,
\* and fewer than MaxOpen of the two together.
NextService ==
    \/ \E c \in Clients : Len(threads) < MaxBusy /\ trigger_manual_run(c)
    \/ LoadModule
    \/ Len(threads) < MaxBusy /\ CronInvocation
    \/ \E c \in Clients : fix_database(c)
    \/ \E call \in BagToSet(inits) : InitDbStep(call)
    \/ \E call \in BagToSet(inits) : fix_database_insert(call)
    \/ \E c \in Clients :
         Len(summary_runs) < MaxRecords /\ force_test_run(c)
    \/ \E c \in Clients : get_recent_summaries(c)
    \/ \E rd \in BagToSet(reading) : get_recent_summaries_rows(rd)
    \/ \E t \in 1..Len(threads) : RunFetch(t)
    \/ \E t \in 1..Len(threads) : RunSummarize(t)
    \/ \E t \in 1..Len(threads) : RunStore(t)

SpecService == InitService /\ [][NextService]_vars

\* ------------------------------------------------------ the runs alone

\* The runs started by the manual trigger, with nothing else at the
\* database: up to MaxThreads runs are started.
NextRuns ==
    \/ \E c \in Clients : Len(threads) < MaxThreads /\ trigger_manual_run(c)
    \/ \E t \in 1..Len(threads) : RunFetch(t)
    \/ \E t \in 1..Len(threads) : RunSummarize(t)
    \/ \E t \in 1..Len(threads) : RunStore(t)

SpecRuns == InitService /\ [][NextRuns]_vars

\* ------------------------------------------------------ claims: helpers

\* ceil(n / batch_size)
NumBatches(n) == (n + batch_size - 1) \div batch_size

\* The positions of the batch of a generation request.
BatchKeys(call) == (call.start + 1)..(call.start + Len(call.batch))

\* fetch_emails_last_24h has returned.
FetchReturned == pc \notin {"idle", "failed", "constructed", "fetching"}

\* summarize_emails_in_batches returns.
Returns == pc = "summarized"

\* summarize_emails_in_batches has returned in a run that fetched messages.
LoopDone ==
    /\ pc \in {"summarized", "storing", "stored", "done"}
    /\ emails_data # <<>>

Failed(call) == call.outcome.kind \in {"network", "status", "envelope"}

Succeeded(call) == call.outcome.kind = "ok"

\* What the parser makes of the response text of a request that succeeded.
ParsedReply(call) ==
    extract_individual_summaries(
        ReplyText(call.outcome, call.start, Len(call.batch)),
        call.batch, call.start)

Parsed == parse.state = "parsed"

ParseKeys == (parse.start + 1)..(parse.start + parse.count)

\* An injected text holds text that a marker pattern of the batch matches:
\* "Email n:" for a position n of the batch or the position after it.
HasBatchMarker(text) ==
    \E i \in 1..Len(text) :
      \E n \in (parse.start + 1)..(parse.start + parse.count + 1) :
        IsEmailRe(text[i], n)

CleanInjections == \A i \in 1..parse.count : ~HasBatchMarker(parse.inj[i])

\* ------------------------------------------------------ claims C1 - C5

\* C1: when summarize_emails_in_batches has returned for N >= 1 fetched
\* messages, the key set of the summary map is exactly 1..N (so it has N
\* entries), whatever the outcomes of the batches were.
C1_Totality ==
    LoopDone =>
      /\ DOMAIN all_summaries = 1..Len(emails_data)
      /\ Cardinality(DOMAIN all_summaries) = Len(emails_data)

\* C1 witness: 21 messages, three batches: one failed, one answered with an
\* empty text, one answered with a marker missing.
C1_Witness ==
    /\ LoopDone
    /\ Len(emails_data) = 21
    /\ Len(calls) = 3
    /\ Failed(calls[1])
    /\ calls[2].outcome.omit = 2
    /\ calls[3].outcome.style = "empty"
    /\ Cardinality(DOMAIN all_summaries) = 21

\* C2 (as claimed): for a response text with the marker of every position
\* but position k, position k holds the parse-failure string and every
\* other position j holds exactly the cleaned text that followed marker j.
C2_Degradation ==
    (Parsed /\ parse.built /\ parse.omit >= 1 /\ CleanInjections) =>
      /\ DOMAIN parse.out = ParseKeys
      /\ \A j \in 1..parse.count :
           parse.out[parse.start + j] =
             IF j = parse.omit THEN NOT_AVAILABLE
             ELSE CleanSummary(parse.inj[j])

\* C3 (as claimed): when one batch failed and the others succeeded, every
\* position of the failed batch holds the batch-failure string, no position
\* of another batch holds it, and the entries of the other batches are what
\* the parser makes of their own response texts.
C3_Isolation ==
    (Returns /\ Cardinality({j \in 1..Len(calls) : Failed(calls[j])}) = 1) =>
      \A j \in 1..Len(calls) :
        IF Failed(calls[j])
        THEN \A n \in BatchKeys(calls[j]) : all_summaries[n] = API_ERROR
        ELSE \A n \in BatchKeys(calls[j]) :
               /\ all_summaries[n] # API_ERROR
               /\ all_summaries[n] = ParsedReply(calls[j])[n]

\* C3 (amended): every position of a failed batch holds the batch-failure
\* string, and every entry of every batch that succeeded is exactly what the
\* parser extracts from that batch's own response text, whatever happened to
\* the batches before and after it.
C3_IsolationAmended ==
    Returns =>
      \A j \in 1..Len(calls) :
        \A n \in BatchKeys(calls[j]) :
          /\ n \in DOMAIN all_summaries
          /\ all_summaries[n] = IF Failed(calls[j]) THEN API_ERROR
                                ELSE ParsedReply(calls[j])[n]

\* C3 witness: three batches, the second failed, the first and the third
\* answered in the requested format.
C3_Witness ==
    /\ Returns
    /\ Len(calls) = 3
    /\ Failed(calls[2])
    /\ calls[1].outcome = [kind |-> "ok", style |-> "bold", omit |-> 0]
    /\ calls[3].outcome = [kind |-> "ok", style |-> "bold", omit |-> 0]
    /\ all_summaries[1] = <<W(1)>>
    /\ all_summaries[11] = API_ERROR
    /\ all_summaries[21] = <<W(21)>>

\* C4: for every response text, start index and batch, the result of
\* extract_individual_summaries has exactly the keys of the batch.
C4_ParserTotal ==
    Parsed => DOMAIN parse.out = ParseKeys

\* C4 witness: an arbitrary text in which the marker of the second position
\* comes before the marker of the first.
C4_Witness ==
    /\ Parsed
    /\ ~parse.built
    /\ parse.count = 2
    /\ \E i, j \in 1..Len(parse.text) :
         /\ i < j
         /\ PlainMarkerAt(parse.text, i, parse.start + 2)
         /\ PlainMarkerAt(parse.text, j, parse.start + 1)

\* C5 (as claimed): for a text built from the markers in order, each followed
\* by an injected text, the entry of each position equals the injected text.
C5_RoundTrip ==
    (Parsed /\ parse.built /\ parse.omit = 0) =>
      /\ DOMAIN parse.out = ParseKeys
      /\ \A i \in 1..parse.count : parse.out[parse.start + i] = parse.inj[i]

\* C5 (amended): the entry of each position equals the injected text after
\* cleaning (surrounding whitespace stripped, "**" removed, whitespace runs
\* collapsed to one space, cut to 400 characters), provided no injected text
\* holds "Email n:" for a position n of the batch or the position after it.
C5_RoundTripCleaned ==
    (Parsed /\ parse.built /\ parse.omit = 0 /\ CleanInjections) =>
      /\ DOMAIN parse.out = ParseKeys
      /\ \A i \in 1..parse.count :
           parse.out[parse.start + i] = CleanSummary(parse.inj[i])

\* C5 witness: three positions, the second with an injected text that the
\* cleaning changes and cuts.
C5_Witness ==
    /\ Parsed
    /\ parse.built
    /\ parse.omit = 0
    /\ CleanInjections
    /\ parse.count = 3
    /\ parse.inj[2] = <<WX, WX>>
    /\ parse.out[parse.start + 2] = <<WX, <<"x", 0, SummaryLimit - XLen>> >>
    /\ parse.out[parse.start + 3] = <<W(parse.start + 3)>>

\* ------------------------------------------------------ claims C6 - C10

\* The slices of the requests, one after the other.
RECURSIVE ConcatBatches(_)
ConcatBatches(cs) ==
    IF cs = <<>> THEN <<>> ELSE Head(cs).batch \o ConcatBatches(Tail(cs))

Elements(seq) == {seq[i] : i \in 1..Len(seq)}

\* C6: the batch loop makes ceil(N / batch_size) batches with the start
\* offsets 0, batch_size, 2 * batch_size, ...; each slice has batch_size
\* messages except possibly the last, the slices are pairwise disjoint and,
\* one after the other, they give the fetched sequence; an empty sequence
\* gives no batch.
C6_Partition ==
    /\ LoopDone =>
         /\ Len(calls) = NumBatches(Len(emails_data))
         /\ \A j \in 1..Len(calls) :
              /\ calls[j].start = (j - 1) * batch_size
              /\ Len(calls[j].batch) >= 1
              /\ Len(calls[j].batch) <= batch_size
              /\ j < Len(calls) => Len(calls[j].batch) = batch_size
         /\ \A j, k \in 1..Len(calls) :
              j # k => Elements(calls[j].batch) \cap Elements(calls[k].batch) = {}
         /\ ConcatBatches(calls) = emails_data
    /\ (pc = "done" /\ emails_data = <<>>) => calls = <<>>

\* C6 witness: 21 messages give the batches of 10, 10 and 1 messages.
C6_Witness ==
    /\ LoopDone
    /\ Len(emails_data) = 21
    /\ Len(calls) = 3
    /\ Len(calls[2].batch) = 10
    /\ calls[3].batch = <<21>>

\* The number of rows stored for a run.
RowsOf(run_id) == {r \in email_data : r.run_id = run_id}

\* What is handed to persistence covers the fetched messages.
HandedComplete ==
    /\ handed.given
    /\ handed.emails = emails_data
    /\ DOMAIN handed.summaries = 1..Len(emails_data)
    /\ handed.summaries = all_summaries

\* The stored run holds one row per fetched message, numbered 1..N, row i
\* with the i-th message and the entry of position i.
StoredComplete ==
    /\ Len(summary_runs) = 1
    /\ summary_runs[1].total_emails = Len(emails_data)
    /\ Cardinality(RowsOf(1)) = Len(emails_data)
    /\ \A i \in 1..Len(emails_data) :
         \E r \in RowsOf(1) :
           /\ r.email_number = i
           /\ r.email = emails_data[i]
           /\ r.summary = all_summaries[i]

\* C7 (as claimed): whenever a run that fetched N >= 1 messages has ended,
\* what it handed to persistence and what is stored cover all N messages.
C7_Complete ==
    (pc = "done" /\ emails_data # <<>>) => (HandedComplete /\ StoredComplete)

\* The stored run holds a row for exactly the positions whose insert did not
\* fail, each with its message and its entry.
StoredExcept(bad) ==
    /\ Len(summary_runs) = 1
    /\ summary_runs[1].total_emails = Len(emails_data)
    /\ {r.email_number : r \in RowsOf(1)} = (1..Len(emails_data)) \ bad
    /\ \A r \in RowsOf(1) :
         /\ r.email = emails_data[r.email_number]
         /\ r.summary = all_summaries[r.email_number]

\* C7 (amended): whenever a run that fetched N >= 1 messages has ended, what
\* it handed to persistence covers all N messages; what is stored covers all
\* N messages when the database raised no error during the store, covers
\* all but the rows whose insert failed when single inserts failed, and is
\* nothing when the store failed outside the row loop.
C7_CompleteAmended ==
    (pc = "done" /\ emails_data # <<>>) =>
      /\ HandedComplete
      /\ storage.kind = "ok" => (StoredComplete /\ storage.storage_success)
      /\ storage.kind = "rows" => StoredExcept(storage.bad)
      /\ storage.kind = "error" =>
           (summary_runs = <<>> /\ email_data = {}
              /\ ~storage.storage_success)

\* C7 witness: a run over 21 messages whose last batch failed ends with 21
\* stored rows, the last one with the batch-failure string.
C7_Witness ==
    /\ pc = "done"
    /\ Len(emails_data) = 21
    /\ storage.kind = "ok"
    /\ StoredComplete
    /\ \E r \in RowsOf(1) : r.email_number = 21 /\ r.summary = API_ERROR
    /\ \E r \in RowsOf(1) : r.email_number = 1 /\ r.summary # API_ERROR

\* C8: no batch is requested twice, a failed request is followed by the
\* request of the next batch, and when the loop has ended exactly
\* ceil(N / batch_size) requests were issued, whatever their outcomes.
C8_NoRetry ==
    /\ \A j, k \in 1..Len(calls) : j # k => calls[j].start # calls[k].start
    /\ \A j \in 1..(Len(calls) - 1) :
         Failed(calls[j]) => calls[j + 1].start = calls[j].start + batch_size
    /\ LoopDone => Len(calls) = NumBatches(Len(emails_data))
    /\ (pc = "loop" /\ calls # <<>>) =>
         batch_num = calls[Len(calls)].start + batch_size

\* C8 witness: a run over three batches in which every request failed.
C8_Witness ==
    /\ LoopDone
    /\ Len(calls) = 3
    /\ \A j \in 1..3 : Failed(calls[j])
    /\ \A n \in 1..Len(emails_data) : all_summaries[n] = API_ERROR

Pending == {j \in 1..Len(calls) : calls[j].outcome.kind = "pending"}

\* C9: the requests are issued in increasing start-offset order, at most one
\* is outstanding, and when a request is issued every request before it has
\* ended and its entries are in the map.
C9_Sequential ==
    /\ Cardinality(Pending) <= 1
    /\ \A j \in 1..(Len(calls) - 1) :
         /\ calls[j].start < calls[j + 1].start
         /\ j \notin Pending
         /\ BatchKeys(calls[j]) \subseteq DOMAIN all_summaries

\* C9 witness: the request of the third batch is outstanding.
C9_Witness ==
    /\ pc = "awaiting"
    /\ Len(calls) = 3
    /\ Pending = {3}
    /\ DOMAIN all_summaries = 1..20

\* C10: a run whose fetch gave no message never enters the summarization:
\* it goes from the fetch to the store of the empty run record and to its
\* end, with no generation request and no pacing delay.
C10_EmptySkips ==
    (FetchReturned /\ emails_data = <<>>) =>
      /\ pc \in {"fetched", "storing", "done"}
      /\ calls = <<>>
      /\ sleeps = 0

\* C10 witness: a run that fetched nothing has ended with its empty run
\* record stored.
C10_Witness ==
    /\ pc = "done"
    /\ emails_data = <<>>
    /\ calls = <<>>
    /\ sleeps = 0
    /\ Len(summary_runs) = 1
    /\ summary_runs[1].total_emails = 0

\* ------------------------------------------------------ claims C11 - C20

\* The constructor raised: a required variable is unset (or empty).
Refused == \E i \in 1..Len(RequiredVars) : Falsy(config.env[RequiredVars[i]])

\* C11: if the API key, the mailbox address or the mailbox password is unset
\* the constructor raises, and from either entry point nothing of a run
\* happens: the mailbox is never turned to, no session is opened, no
\* generation request is sent and no run record is stored.
C11_ConfigFatal ==
    Refused =>
      /\ pc \in {"idle", "failed"}
      /\ pc = "failed" => error \in {RequiredVars[i] : i \in 1..Len(RequiredVars)}
      /\ mailbox = NoMailbox
      /\ session = "none"
      /\ calls = <<>>
      /\ summary_runs = <<>>
      /\ email_data = {}
      /\ ~handed.given

\* C11 witness: the manual trigger's worker with only the password unset has
\* ended on the constructor's ValueError.
C11_Witness ==
    /\ pc = "failed"
    /\ config.entry = "run_background"
    /\ config.env["DEEPSEEK_API_KEY"] = "set"
    /\ config.env["SOURCE_EMAIL"] = "set"
    /\ config.env["SOURCE_PASSWORD"] = "unset"
    /\ error = "SOURCE_PASSWORD"
    /\ summary_runs = <<>>

\* C12: a pacing delay is applied after each batch except the last, whether
\* the batch succeeded or failed: when request j is outstanding j-1 delays
\* have been applied, the delay after a batch comes once the batch has ended
\* and before the next request, and a run over k batches ends with exactly
\* k-1 delays.
C12_Pacing ==
    /\ LoopDone => sleeps = Len(calls) - 1
    /\ pc = "awaiting" => sleeps = Len(calls) - 1
    /\ pc = "pacing" =>
         /\ sleeps = Len(calls) - 1
         /\ calls[Len(calls)].outcome.kind # "pending"
         /\ Len(calls) < NumBatches(Len(emails_data))
    /\ pc = "loop" => sleeps = Len(calls)

\* C12 witness: a run over three batches, the first failed and the second
\* answered, has ended with two delays.
C12_Witness ==
    /\ LoopDone
    /\ Len(calls) = 3
    /\ Failed(calls[1])
    /\ Succeeded(calls[2])
    /\ sleeps = 2

\* C13 (as claimed): whenever fetch_emails_last_24h has returned from a run
\* in which the session was opened, the session has been closed.
C13_SessionClosed ==
    (pc = "fetched" /\ mailbox.kind # "connect") => session = "closed"

\* C14: when nothing fails outside the fetch loop, the result holds exactly
\* the messages of the search result that did not fail, each once, in the
\* order of the search result.
C14_LocalFailure ==
    (pc = "fetched" /\ mailbox.kind = "ok") =>
      /\ Len(emails_data) = mailbox.m - Cardinality(mailbox.bad)
      /\ Elements(emails_data) = (1..mailbox.m) \ mailbox.bad
      /\ \A i, j \in 1..Len(emails_data) :
           i < j => emails_data[i] < emails_data[j]

\* C14 witness: of five messages the second and the fourth failed.
C14_Witness ==
    /\ pc = "fetched"
    /\ mailbox = [kind |-> "ok", m |-> 5, bad |-> {2, 4}]
    /\ emails_data = <<1, 3, 5>>

\* A failure of the whole mailbox exchange.
TotalFailure == mailbox.kind \in FetchFailures

\* C15: when connecting, logging in, selecting the inbox or searching fails
\* (or the search status is not OK, or closing fails), fetch_emails_last_24h
\* returns the empty sequence and no exception reaches the entry point; the
\* run goes on as a run with nothing to summarize: no generation request,
\* and the empty run is handed to persistence.
C15_MailboxFailure ==
    (FetchReturned /\ TotalFailure) =>
      /\ emails_data = <<>>
      /\ error = "none"
      /\ calls = <<>>
      /\ pc \in {"fetched", "storing", "done"}
      /\ pc \in {"storing", "done"} =>
           handed = [given |-> TRUE, emails |-> <<>>,
                     summaries |-> EmptyDict]
      /\ pc = "done" =>
           /\ storage.kind \in {"ok", "error"}
           /\ storage.kind = "ok" =>
                summary_runs = <<RunRecord(<<>>, EmptyDict)>>

\* C15 witness: a run whose login failed has ended with the empty run record
\* stored.
C15_Witness ==
    /\ pc = "done"
    /\ mailbox.kind = "login"
    /\ emails_data = <<>>
    /\ storage.kind = "ok"
    /\ Len(summary_runs) = 1
    /\ summary_runs[1].total_emails = 0
    /\ email_data = {}

\* The text holds the batch-failure string.
HoldsApiError(text) == \E i \in 1..Len(text) : text[i] = API_ERROR[1]

\* The response text of a request that succeeded.
ResponseOf(call) == ReplyText(call.outcome, call.start, Len(call.batch))

\* The response of the request lacks the marker of position n.
MarkerMissing(call, n) ==
    \/ call.outcome.style = "empty"
    \/ call.outcome.omit = n - call.start

\* C16: the parse-failure string and the batch-failure string differ; every
\* position of a failed batch holds the batch-failure string, never the
\* parse-failure string; a position of a batch that succeeded holds the
\* parse-failure string when its marker is missing from the response, and
\* holds the batch-failure string only if the response text itself holds it.
C16_Distinguishable ==
    /\ NOT_AVAILABLE # API_ERROR
    /\ Returns =>
         \A j \in 1..Len(calls) :
           \A n \in BatchKeys(calls[j]) :
             /\ Failed(calls[j]) =>
                  (all_summaries[n] = API_ERROR
                     /\ all_summaries[n] # NOT_AVAILABLE)
             /\ (Succeeded(calls[j]) /\ MarkerMissing(calls[j], n)) =>
                  all_summaries[n] = NOT_AVAILABLE
             /\ (Succeeded(calls[j]) /\ all_summaries[n] = API_ERROR) =>
                  HoldsApiError(ResponseOf(calls[j]))

\* C16 witness: the first batch failed and the response of the second lacks
\* the marker of position 12.
C16_Witness ==
    /\ Returns
    /\ Len(calls) = 2
    /\ Len(emails_data) = 13
    /\ Failed(calls[1])
    /\ calls[2].outcome = [kind |-> "ok", style |-> "bold", omit |-> 2]
    /\ all_summaries[2] = API_ERROR
    /\ all_summaries[12] = NOT_AVAILABLE
    /\ all_summaries[13] = <<W(13)>>

\* C17 (as claimed): every run that has started reaches its end, whatever
\* the mailbox server and the generation endpoint do, a server that never
\* answers included.
C17_Terminates == (pc = "constructed") ~> (pc = "done")

\* C18: the only exception that reaches an entry point is the ValueError of
\* the constructor: a run that has started goes through its steps with no
\* exception caught by the entry point and ends by returning, whatever the
\* mailbox, the generation endpoint and the database did.
C18_NoException ==
    /\ error # "none" =>
         (Refused /\ pc = "failed" /\ error = MissingVar(config.env))
    /\ pc = "failed" => (Refused /\ mailbox = NoMailbox)
    /\ (pc \notin {"idle", "failed"}) => (~Refused /\ error = "none")

\* C18 witness: a run in which a message failed in the fetch loop, the first
\* batch failed, the response of the second was empty and the store raised
\* has returned.
C18_Witness ==
    /\ pc = "done"
    /\ mailbox.kind = "ok"
    /\ mailbox.bad = {1}
    /\ Len(calls) = 2
    /\ Failed(calls[1])
    /\ calls[2].outcome.style = "empty"
    /\ storage.kind = "error"
    /\ error = "none"

\* C19: when the request of a batch with start offset s has been sent, the
\* prompt numbers the i-th message of the batch s+i and asks for the marker
\* of that number; applied to the response that follows the requested format
\* literally, the parser's first pattern matches for every number s+i and
\* the parser stores the summary of the i-th message under the key s+i.
C19_Numbering ==
    pc = "awaiting" =>
      LET call == calls[Len(calls)]
          count == Len(call.batch)
          text == LiteralResponse(call.start, count)
          out == extract_individual_summaries(text, call.batch, call.start)
      IN  /\ DOMAIN out = {PromptNumber(call.start, i) : i \in 1..count}
          /\ \A i \in 1..count :
               LET number == PromptNumber(call.start, i)
               IN  /\ PromptHeading(call.start, i) = <<EmailMark(number), NL>>
                   /\ i <= 2 =>
                        PromptMarkers(call.start)[i] = RequestedMarker(number)
                   /\ PatternSearch("bold", text, number)[1]
                   /\ out[number] = <<W(number)>>
          /\ text = ReplyText([kind |-> "ok", style |-> "bold", omit |-> 0],
                              call.start, count)

\* C19 witness: the request of the third batch is outstanding and the second
\* batch was answered in the requested format: position 20 holds the summary
\* of the tenth message of that batch.
C19_Witness ==
    /\ pc = "awaiting"
    /\ Len(calls) = 3
    /\ calls[3].start = 20
    /\ calls[2].outcome = [kind |-> "ok", style |-> "bold", omit |-> 0]
    /\ all_summaries[20] = <<W(20)>>

\* A pattern of the parser matches for position n of the parsed text.
Matched(n) ==
    \/ PatternSearch("bold", parse.text, n)[1]
    \/ PatternSearch("plain", parse.text, n)[1]

\* The entry holds no "**", no line end and no two whitespace characters in
\* a row, and has at most 400 characters.
CleanEntry(entry) ==
    /\ \A i \in 1..Len(entry) : ~IsBB(entry[i]) /\ entry[i] # NL
    /\ \A i \in 1..(Len(entry) - 1) : ~(IsWs(entry[i]) /\ IsWs(entry[i + 1]))
    /\ CharLen(entry) <= SummaryLimit

\* C20: every entry that the parser makes from a match of a marker pattern
\* holds no "**", no line end and no run of whitespace and has at most 400
\* characters; every entry of the result, the fallback strings included, has
\* at most 400 characters.
C20_Cleaned ==
    /\ CharLen(API_ERROR) <= SummaryLimit
    /\ Parsed =>
         \A n \in ParseKeys :
           /\ n \in DOMAIN parse.out
           /\ Matched(n) => CleanEntry(parse.out[n])
           /\ CharLen(parse.out[n]) <= SummaryLimit

\* C20 witness: a summary of 798 characters has been cut to 400.
C20_Witness ==
    /\ Parsed
    /\ parse.built
    /\ parse.count = 2
    /\ parse.omit = 0
    /\ parse.inj[1] = <<WX, WX>>
    /\ Matched(parse.start + 1)
    /\ CharLen(parse.out[parse.start + 1]) = SummaryLimit

\* ------------------------------------------------------ claims C21 - C28

\* C21: the step that merges the entries of a batch leaves every entry of
\* the batches before it as it was, and the keys it adds are exactly the
\* positions start+1 .. start+len(batch) of that batch in the whole run;
\* no other step of the run changes the map.
C21_MergeKeeps ==
    [][/\ all_summaries' # all_summaries => pc = "awaiting"
       /\ (pc = "awaiting" /\ pc' # "awaiting") =>
            /\ \A k \in DOMAIN all_summaries :
                 /\ k \in DOMAIN all_summaries'
                 /\ all_summaries'[k] = all_summaries[k]
            /\ (DOMAIN all_summaries') \ (DOMAIN all_summaries)
                 = BatchKeys(calls[Len(calls)])
            /\ calls[Len(calls)].start >= batch_size =>
                 BatchKeys(calls[Len(calls)])
                   \cap (1..Len(calls[Len(calls)].batch)) = {}]_vars

\* C21 witness: the second batch has been merged after a first batch that
\* failed: the positions 1..10 still hold the batch-failure string and the
\* second batch's entries are at 11..20.
C21_Witness ==
    /\ pc = "pacing"
    /\ Len(calls) = 2
    /\ Failed(calls[1])
    /\ calls[2].outcome = [kind |-> "ok", style |-> "bold", omit |-> 0]
    /\ DOMAIN all_summaries = 1..20
    /\ \A n \in 1..10 : all_summaries[n] = API_ERROR
    /\ \A n \in 11..20 : all_summaries[n] = <<W(n)>>

\* The success rate <<p, q>> stands for the number p / q.
RateIs(rate, percent) == rate[1] = percent * rate[2]

\* The entries of the map that are a fallback string.
FallbackKeys(summaries) ==
    {k \in DOMAIN summaries : summaries[k] \in {API_ERROR, NOT_AVAILABLE}}

\* C24: every stored run record of a run that fetched N >= 1 messages has
\* processed_emails = total_emails = N and the success rate 100, whatever
\* number of batches failed and whatever number of positions hold a fallback
\* string.
C24_SuccessFigures ==
    /\ \A id \in 1..Len(summary_runs) :
         summary_runs[id].total_emails >= 1 =>
           /\ summary_runs[id].processed_emails = summary_runs[id].total_emails
           /\ RateIs(summary_runs[id].success_rate, 100)
    /\ (pc \in {"stored", "done"} /\ emails_data # <<>>
          /\ storage.kind # "error") =>
         /\ Len(summary_runs) = 1
         /\ summary_runs[1].total_emails = Len(emails_data)
         /\ summary_runs[1].processed_emails = Len(emails_data)
         /\ RateIs(summary_runs[1].success_rate, 100)

\* C24 witness: a run over 21 messages of which 20 hold a fallback string
\* (the first batch failed, the second was answered with an empty text) is
\* stored with 21 processed messages and the success rate 100.
C24_Witness ==
    /\ pc = "done"
    /\ Len(emails_data) = 21
    /\ Failed(calls[1])
    /\ calls[2].outcome.style = "empty"
    /\ Cardinality(FallbackKeys(all_summaries)) >= 20
    /\ Len(summary_runs) = 1
    /\ summary_runs[1].processed_emails = 21
    /\ RateIs(summary_runs[1].success_rate, 100)

\* Line 1227 holds for some line of the parsed text and position n.
SomeLineMentions(n) ==
    \E k \in 1..Len(SplitLines(parse.text)) :
      LineMentions(SplitLines(parse.text)[k], n)

\* C25: for every response text and every position n of the batch, a line
\* that holds "email n:" (in any letter case) makes the second marker
\* pattern match, so the line scan is reached only when no line holds the
\* token: when neither pattern matches, the line scan finds nothing and the
\* position gets the parse-failure string; when a pattern matches, the entry
\* is the cleaned capture of the first pattern that matches.
C25_LineScanDead ==
    Parsed =>
      \A n \in ParseKeys :
        /\ SomeLineMentions(n) => PatternSearch("plain", parse.text, n)[1]
        /\ LineScan(parse.text, n)[1] => PatternSearch("plain", parse.text, n)[1]
        /\ ~Matched(n) =>
             /\ ~SomeLineMentions(n)
             /\ ~LineScan(parse.text, n)[1]
             /\ parse.out[n] = NOT_AVAILABLE
        /\ Matched(n) =>
             parse.out[n] =
               IF PatternSearch("bold", parse.text, n)[1]
               THEN CleanSummary(PatternSearch("bold", parse.text, n)[2])
               ELSE CleanSummary(PatternSearch("plain", parse.text, n)[2])

\* C25 witness: the text "email 11:**s1": the line scan would find the line
\* and give "email 11:s1" (its replace calls are case sensitive); the second
\* pattern has matched and the entry is "s1".
C25_Witness ==
    /\ Parsed
    /\ parse.text = <<EmailLower(batch_size + 1), BB, W(1)>>
    /\ parse.start = batch_size
    /\ ~PatternSearch("bold", parse.text, batch_size + 1)[1]
    /\ PatternSearch("plain", parse.text, batch_size + 1)[1]
    /\ LineScan(parse.text, batch_size + 1)
         = <<TRUE, <<EmailLower(batch_size + 1), W(1)>> >>
    /\ parse.out[batch_size + 1] = <<W(1)>>

\* C26 (as claimed): for every response text, no entry of the parser's
\* result is the empty string: every position of the batch holds a summary
\* of at least one character or a fallback string.
C26_NoEmptyEntry ==
    Parsed =>
      \A n \in ParseKeys :
        /\ n \in DOMAIN parse.out
        /\ CharLen(parse.out[n]) >= 1

\* The run record of a run without messages: total 0, processed 0, rate 0.
IsEmptyRunRecord(record) ==
    /\ record.total_emails = 0
    /\ record.processed_emails = 0
    /\ RateIs(record.success_rate, 0)
    /\ record.status = "completed"

\* The runs that have stored a run record.
StoredRuns == {t \in 1..Len(threads) : threads[t].run_id > 0}

\* C22: in every state, whatever runs are in flight, a POST of the admin
\* to the manual trigger is answered with success and starts one more run.
\* Every run that has stored holds the id of a run record, and no two runs
\* hold the same id.  No step removes a run, and a run changes only by a
\* step of its own, which changes no other run.  A store that commits
\* appends the run record of its own messages under a new id, which the run
\* then holds, and leaves the records of the other runs as they are,
\* whichever run stores first.
C22_NoExclusion ==
    /\ [](\A c \in Clients :
            admin_required(cookies[c]) =>
              ENABLED (/\ trigger_manual_run(c)
                       /\ Len(threads') = Len(threads) + 1
                       /\ threads'[Len(threads')].pc = "started"
                       /\ request'.result = "success"))
    /\ [](\A t \in StoredRuns :
            /\ threads[t].run_id \in 1..Len(summary_runs)
            /\ \A u \in StoredRuns :
                 u # t => threads[u].run_id # threads[t].run_id)
    /\ [][/\ Len(threads') >= Len(threads)
          /\ \A t \in 1..Len(threads) :
               threads'[t] # threads[t] =>
                 /\ Len(threads') = Len(threads)
                 /\ RunFetch(t) \/ RunSummarize(t) \/ RunStore(t)
                 /\ \A u \in 1..Len(threads) :
                      u # t => threads'[u] = threads[u]
          /\ \A t \in 1..Len(threads) :
               (summary_runs' # summary_runs /\ RunStore(t)) =>
                 /\ Len(summary_runs') = Len(summary_runs) + 1
                 /\ summary_runs'[Len(summary_runs')] =
                      RunRecord(threads[t].emails_data,
                                threads[t].all_summaries)
                 /\ threads'[t].run_id = Len(summary_runs')
                 /\ \A id \in 1..Len(summary_runs) :
                      summary_runs'[id] = summary_runs[id]]_vars

\* C22 witness: three runs were started by the manual trigger and all have
\* stored.  The second one, which found no message, stored first, while the
\* first one was in flight; the first one stored its record and the row of
\* its message after it; the third one stored last.  So the first two
\* completed against the order of their start and the last two in it.
C22_Witness ==
    /\ Len(threads) = 3
    /\ threads[2].run_id = 1
    /\ threads[1].run_id = 2
    /\ threads[3].run_id = 3
    /\ Len(summary_runs) = 3
    /\ IsEmptyRunRecord(summary_runs[1])
    /\ summary_runs[2].total_emails = 1
    /\ Cardinality(RowsOf(2)) = 1
    /\ RowsOf(1) = {}

\* The request handled last was a successful password change.
PasswordChanged ==
    request.route = "/change-password" /\ request.result = "changed"

\* C23 (as claimed): when a password change has succeeded no browser holds
\* a logged-in session, neither the one that made the change nor any
\* other, so that every browser has to log in again to reach a
\* login-protected route.
C23_AllLoggedOut ==
    PasswordChanged => \A d \in Clients : ~login_required(cookies[d])

\* The run with the largest id is one that fetched no message.
LatestIsEmptyRun ==
    /\ summary_runs # <<>>
    /\ summary_runs[Len(summary_runs)].total_emails = 0

\* C27 (as claimed): a run that fetched no message makes no generation
\* request and, unless the database raises, stores a run record with total
\* 0, processed 0 and success rate 0 and no email row.  While that record is
\* the latest one it has no row, and a recent-summaries request of a
\* logged-in client whose first query finds it is answered with the two
\* built-in placeholder emails as long as it stays the latest one, whatever
\* earlier runs have stored.
C27_EmptyRun ==
    /\ [](LatestIsEmptyRun =>
            /\ IsEmptyRunRecord(summary_runs[Len(summary_runs)])
            /\ RowsOf(Len(summary_runs)) = {}
            /\ LatestRunData(summary_runs, email_data)
                 = get_fallback_email_data
            /\ Len(get_fallback_email_data) = 2)
    /\ [][/\ \A t \in 1..Len(threads) :
              (threads[t].emails_data = <<>> /\ RunStore(t)) =>
                /\ threads[t].requests = 0
                /\ email_data' = email_data
                /\ tables.summary_runs =>
                     StoreInto(TheDatabase, <<>>, EmptyDict, FALSE, {}).db
                       .summary_runs
                       = Append(summary_runs, RunRecord(<<>>, EmptyDict))
                /\ \/ summary_runs' = summary_runs
                   \/ /\ Len(summary_runs') = Len(summary_runs) + 1
                      /\ IsEmptyRunRecord(summary_runs'[Len(summary_runs')])
                      /\ LatestRunData(summary_runs', email_data')
                           = get_fallback_email_data
         /\ \A c \in Clients :
              (login_required(cookies[c]) /\ LatestIsEmptyRun
                 /\ get_recent_summaries(c)) =>
                \/ /\ reading' = reading
                   /\ request'.body = get_fallback_email_data
                \/ reading' = Put(reading, ReadAt(c, Len(summary_runs)))
         /\ \A rd \in BagToSet(reading) :
              (LatestIsEmptyRun /\ rd.run_id = Len(summary_runs)
                 /\ get_recent_summaries_rows(rd)) =>
                request'.body = get_fallback_email_data]_vars

\* The step is the statement the init_db call stands at, and the call goes
\* on to its next statement: the statement did not raise.
Executes(call) ==
    /\ BagCardinality(inits') = BagCardinality(inits)
    /\ BagIn([Forget(call, Database(summary_runs', email_data', tables'))
                EXCEPT !.pc = InitDbAfter(call.pc)], inits')
    /\ InitDbStep(call)

\* The step puts a call of init_db by caller, at its first statement, among
\* the calls in flight and leaves the tables as they are; everything the
\* tables hold is there before the call.
Calls(caller) ==
    /\ \E call \in BagToSet(inits') :
         /\ call.caller = caller
         /\ call.pc = InitDbStatements[1]
         /\ call.runs = (summary_runs # <<>>)
         /\ call.rows = (email_data # {})
         /\ inits' = Put(inits, call)
    /\ UNCHANGED <<summary_runs, email_data, tables>>

\* What a store of the messages emails with the summaries summaries may do
\* to the tables: nothing, or its run record is appended under a new id,
\* with rows of its own messages only, which get new ids.
StoresOwn(emails, summaries) ==
    /\ Len(summary_runs') \in {Len(summary_runs), Len(summary_runs) + 1}
    /\ \A id \in 1..Len(summary_runs) : summary_runs'[id] = summary_runs[id]
    /\ Len(summary_runs') = Len(summary_runs) =>
         email_data' = email_data
    /\ Len(summary_runs') = Len(summary_runs) + 1 =>
         summary_runs'[Len(summary_runs')] = RunRecord(emails, summaries)
    /\ email_data \subseteq email_data'
    /\ \A r \in email_data' \ email_data :
         /\ r.id > Cardinality(email_data)
         /\ r.run_id = Len(summary_runs) + 1
         /\ r.email_number \in 1..Len(emails)
         /\ r.email = emails[r.email_number]
    /\ tables' = tables

\* C28: a process that loads the module, a cron invocation and the
\* fix-database request of an admin call init_db.  Once a call is past its
\* DROP of summary_runs no run record that was there when the call began
\* exists, once it is past its DROP of email_data no email row that was
\* there when it began exists, and so it is when init_db returns and when
\* fix_database inserts its test run: the DROP of summary_runs leaves that
\* table without any record, the DROP of email_data leaves that table
\* without any row, and the other statements neither add nor remove a
\* record or row.  A store of a run or of force_test_run adds its own run
\* record and rows, under new ids, to what the tables hold at that moment,
\* or nothing; fix_database adds its test run and the two test rows, or
\* nothing; no other step changes the tables.  So no record and no row
\* that was dropped comes back.
C28_FreshStart ==
    /\ [](\A call \in BagToSet(inits) :
            /\ call.runs => summary_runs # <<>>
            /\ call.rows => email_data # {}
            /\ call.pc # "drop_summary_runs" => ~call.runs
            /\ call.pc \notin {"drop_summary_runs", "drop_email_data"} =>
                 ~call.rows)
    /\ [][/\ inits' # inits =>
               /\ LoadModule => Calls("load")
               /\ CronInvocation => Calls("cron")
               /\ \A c \in Clients :
                    (admin_required(cookies[c]) /\ fix_database(c)) =>
                      Calls("fix")
               /\ \A call \in BagToSet(inits) :
                    /\ (call.pc = "drop_summary_runs" /\ Executes(call)) =>
                         /\ summary_runs' = <<>>
                         /\ ~tables'.summary_runs
                         /\ email_data' = email_data
                         /\ \A other \in BagToSet(inits') : ~other.runs
                    /\ (call.pc = "drop_email_data" /\ Executes(call)) =>
                         /\ email_data' = {}
                         /\ ~tables'.email_data
                         /\ summary_runs' = summary_runs
                         /\ \A other \in BagToSet(inits') : ~other.rows
                    /\ (call.pc \notin {"drop_summary_runs",
                                        "drop_email_data", "insert"}
                          /\ InitDbStep(call)) =>
                         /\ summary_runs' = summary_runs
                         /\ email_data' = email_data
                    /\ (call.pc = "create_indexes" /\ InitDbStep(call)) =>
                         /\ ~call.runs
                         /\ ~call.rows
                         /\ UNCHANGED <<summary_runs, email_data, tables>>
                    /\ (call.pc = "insert" /\ fix_database_insert(call)) =>
                         /\ ~call.runs
                         /\ ~call.rows
                         /\ tables' = tables
                         /\ \/ /\ summary_runs' = summary_runs
                               /\ email_data' = email_data
                            \/ /\ summary_runs' = Append(summary_runs, TestRun)
                               /\ email_data' =
                                    email_data \cup
                                      Inserted(email_data,
                                               TestRows(Len(summary_runs) + 1))
          /\ \A t \in 1..Len(threads) :
               (threads'[t] # threads[t] /\ RunStore(t)) =>
                 StoresOwn(threads[t].emails_data, threads[t].all_summaries)
          /\ \A c \in Clients :
               (request'.route = "/api/force-test-run" /\ force_test_run(c)) =>
                 StoresOwn(sample_emails, sample_summaries)
          /\ (summary_runs' # summary_runs \/ email_data' # email_data
                \/ tables' # tables) =>
               \/ \E call \in BagToSet(inits) :
                    InitDbStep(call) \/ fix_database_insert(call)
               \/ \E c \in Clients : force_test_run(c)
               \/ \E t \in 1..Len(threads) : RunStore(t)]_vars

\* C28 witness: force_test_run has stored its run and rows, under the id
\* 1, and answered with success; since then no other request was answered.
\* Now the init_db of a fix-database request has returned and fix_database
\* stands before its inserts: the run and the rows of force_test_run do not
\* exist; the tables hold the record of the run that was in flight and
\* stored into the recreated tables, under the id 1 again, and the rows of
\* its messages, and nothing else.
C28_Witness ==
    /\ \E call \in BagToSet(inits) :
         /\ call.caller = "fix"
         /\ call.pc = "insert"
         /\ ~call.runs
         /\ ~call.rows
    /\ request.route = "/api/force-test-run"
    /\ request.result = "success"
    /\ Len(threads) = 1
    /\ threads[1].pc = "done"
    /\ threads[1].run_id = 1
    /\ Len(summary_runs) = 1
    /\ summary_runs[1].status = "completed"
    /\ summary_runs[1].total_emails > 0
    /\ Cardinality(RowsOf(1)) = summary_runs[1].total_emails
    /\ email_data = RowsOf(1)
    /\ \A r \in email_data : r.email > 0

====
